---- MODULE Spec2Model ----
(***************************************************************************)
(* Model of the Chronos interpreter (src/src/chronos.rs): the runtime      *)
(* value model with its per-variant operators, the parent-linked chain of  *)
(* Contexts with their SymbolTables, and the tree-walking evaluator        *)
(* (visit_node and the visit_*_node functions) behind Compiler::interpret. *)
(*                                                                         *)
(* Source positions (start_pos / end_pos of tokens, values and errors) are *)
(* diagnostics only and are left out of the values modelled here.          *)
(***************************************************************************)
EXTENDS Integers, Sequences, FiniteSets, TLC

VARIABLES
    heap,             \* the Contexts alive, heap[1] = Compiler.global_context
    calls,            \* number of Compiler::interpret calls made so far
    program,          \* the AST handed to the last interpret call (<<>> before the first)
    result,           \* what that call returned
    log,              \* history: the evaluation events of that call, in order
    before,           \* history: heap as it was when that call started
    lastTop,          \* history: name -> value of the latest successful top-level binding
    trace,            \* history: the nodes entered and left and the bindings made by that call
    overflow_checks,  \* build profile: TRUE = debug (overflow panics), FALSE = release (wraps)
    op_left, op_name, op_right, op_result,  \* operands and outcome of one operator application
    text,             \* the source text handed to the Lexer, a sequence of characters
    tokens,           \* what Lexer::parse_tokens returned for it
    scanned,          \* history: the tokens pushed before parse_tokens returned
    parser_tokens,    \* the tokens handed to the Parser
    parsed            \* what Parser::parse returned for them

vars == <<heap, calls, program, result, log, before, lastTop, trace, overflow_checks,
          op_left, op_name, op_right, op_result, text, tokens, scanned,
          parser_tokens, parsed>>

----------------------------------------------------------------------------
(* Bounds of the model *)

\* ChInt is i32 in the source; the model keeps two's-complement arithmetic
\* but at this many bits, so that overflow is reachable within TLC's integers.
IntBits == 5

\* interpret calls per behaviour
MaxCalls == 4

\* loop iterations plus function calls one interpret call may perform before
\* it is cut off as non-terminating
MaxFuel == 12

\* largest argument of the recursive-sum scenario
MaxN == 3

\* a float whose numerator or denominator exceeds this is no longer tracked
\* exactly (it becomes FloatOther)
FloatLimit == 16384

----------------------------------------------------------------------------
(* Results: Result<ChType, Error>, plus the two ways a call does not return *)

Ok(v) == [k |-> "Ok", v |-> v]
Err(e, msg, info) == [k |-> "Err", e |-> e, msg |-> msg, info |-> info]
Panic(msg) == [k |-> "Panic", msg |-> msg]
Diverge == [k |-> "Diverge"]

IsOk(r) == r.k = "Ok"
IsErr(r, e, msg) == r.k = "Err" /\ r.e = e /\ r.msg = msg

----------------------------------------------------------------------------
(* NumberType: INT(i32) or FLOAT(f32).  A FLOAT is held as the rational    *)
(* n/d in lowest terms with d > 0; d = 0 stands for a float outside the    *)
(* rationals modelled (infinite, NaN, irrational, or beyond FloatLimit).    *)
(* An INT has d = 1.                                                       *)

RECURSIVE Gcd(_, _)
Gcd(a, b) == IF b = 0 THEN a ELSE Gcd(b, a % b)

Abs(x) == IF x < 0 THEN -x ELSE x

INT(v) == [k |-> "INT", n |-> v, d |-> 1]

FLOAT(n, d) ==
    IF d = 0 THEN [k |-> "FLOAT", n |-> 1, d |-> 0]
    ELSE LET g == Gcd(Abs(n), Abs(d))
             s == IF d < 0 THEN -1 ELSE 1
         IN IF Abs(n) \div g > FloatLimit \/ Abs(d) \div g > FloatLimit
            THEN [k |-> "FLOAT", n |-> 1, d |-> 0]
            ELSE [k |-> "FLOAT", n |-> s * (n \div g), d |-> s * (d \div g)]

FloatOther == FLOAT(1, 0)

IntMin == -(2 ^ (IntBits - 1))
IntMax == 2 ^ (IntBits - 1) - 1
InRange(x) == IntMin <= x /\ x <= IntMax
Wrap(x) == ((x - IntMin) % (2 ^ IntBits)) + IntMin

\* An i32 operation whose exact result is x: a panic when the build checks
\* overflow and x does not fit, the wrapped value otherwise.
IntResult(x) ==
    IF InRange(x) THEN Ok(INT(x))
    ELSE IF overflow_checks THEN Panic("attempt to compute with overflow")
    ELSE Ok(INT(Wrap(x)))

\* Rust's integer division truncates toward zero.
TruncDiv(a, b) ==
    LET q == Abs(a) \div Abs(b)
    IN IF (a < 0) = (b < 0) THEN q ELSE -q

\* i32::pow: b^e by repeated multiplication, wrapping, with the overflow flag
RECURSIVE PowWrap(_, _)
PowWrap(b, e) ==
    IF e = 0 THEN [v |-> 1, of |-> FALSE]
    ELSE LET r == PowWrap(b, e - 1)
         IN [v |-> Wrap(r.v * b), of |-> r.of \/ ~InRange(r.v * b)]

\* the value of an INT or FLOAT as a rational (v as ChFloat)
AsFloat(x) == FLOAT(x.n, x.d)

FAdd(a, b) == IF a.d = 0 \/ b.d = 0 THEN FloatOther ELSE FLOAT(a.n * b.d + b.n * a.d, a.d * b.d)
FSub(a, b) == IF a.d = 0 \/ b.d = 0 THEN FloatOther ELSE FLOAT(a.n * b.d - b.n * a.d, a.d * b.d)
FMul(a, b) == IF a.d = 0 \/ b.d = 0 THEN FloatOther ELSE FLOAT(a.n * b.n, a.d * b.d)
FDiv(a, b) == IF a.d = 0 \/ b.d = 0 \/ b.n = 0 THEN FloatOther ELSE FLOAT(a.n * b.d, a.d * b.n)

RECURSIVE FPowNat(_, _)
FPowNat(a, e) == IF e = 0 THEN FLOAT(1, 1) ELSE FMul(a, FPowNat(a, e - 1))

\* f32::powf, exact for an integral exponent
FPow(a, b) ==
    IF a.d = 0 \/ b.d # 1 THEN FloatOther
    ELSE IF b.n >= 0 THEN FPowNat(a, b.n)
    ELSE FDiv(FLOAT(1, 1), FPowNat(a, -b.n))

FLess(a, b) == a.d # 0 /\ b.d # 0 /\ a.n * b.d < b.n * a.d
FEq(a, b) == a.d # 0 /\ b.d # 0 /\ a.n * b.d = b.n * a.d

\* int_op / float_op closures handed to operate_on
IntOp(op, v1, v2) ==
    CASE op = "ADD" -> IntResult(v1 + v2)
      [] op = "SUB" -> IntResult(v1 - v2)
      [] op = "MUL" -> IntResult(v1 * v2)
      [] op = "DIV" -> IF v2 = 0 THEN Panic("attempt to divide by zero")
                       ELSE IF ~InRange(TruncDiv(v1, v2))
                            THEN Panic("attempt to divide with overflow")
                            ELSE Ok(INT(TruncDiv(v1, v2)))
      [] op = "POW" -> LET r == PowWrap(v1, IF v2 < 0 THEN 0 ELSE v2)
                       IN IF r.of /\ overflow_checks
                          THEN Panic("attempt to multiply with overflow")
                          ELSE Ok(INT(r.v))

FloatOp(op, a, b) ==
    CASE op = "ADD" -> FAdd(a, b)
      [] op = "SUB" -> FSub(a, b)
      [] op = "MUL" -> FMul(a, b)
      [] op = "DIV" -> FDiv(a, b)
      [] op = "POW" -> FPow(a, b)

----------------------------------------------------------------------------
(* ChType: the runtime values *)

ChNumber(nt) == [t |-> "NUMBER", value |-> nt]
ChString(s) == [t |-> "STRING", string |-> s]
ChBool(b) == [t |-> "BOOL", b |-> b]
ChNone == [t |-> "NONE"]
RustFunc(name) == [t |-> "FUNCTION", func_type |-> "RUSTFUNC", name |-> name]

\* a user-defined function; defined_in is a history field (the Context the
\* definition was evaluated in), never read by the evaluator
ChronosFunc(name, args_name, body, context) ==
    [t |-> "FUNCTION", func_type |-> "CHRONFUNC", name |-> name,
     args_name |-> args_name, body |-> body, context |-> context,
     defined_in |-> context]

IsChronFunc(v) == v.t = "FUNCTION" /\ v.func_type = "CHRONFUNC"

get_desc(v) ==
    CASE v.t = "NUMBER" -> "Number"
      [] v.t = "STRING" -> "String"
      [] v.t = "BOOL" -> "Bool"
      [] v.t = "FUNCTION" -> "function"
      [] v.t = "NONE" -> "None"

\* HasContext::set_context: only a user-defined function keeps a context
set_context(v, context) ==
    IF IsChronFunc(v) THEN [v EXCEPT !.context = context] ELSE v

\* AsNumberType for bool / ChBool
BoolAsNumber(b) == INT(IF b THEN 1 ELSE 0)

\* AsNumberType::convert for ChType
convert(v) ==
    CASE v.t = "NUMBER" -> Ok(v.value)
      [] v.t = "STRING" -> Panic("value can't be converted")
      [] v.t = "BOOL" -> Ok(BoolAsNumber(v.b))
      [] v.t = "FUNCTION" -> Panic("value can't be converted")
      [] v.t = "NONE" -> Err("Runtime", "Could not convert to Number", <<>>)

\* AsNumberType::get_value_type for ChType
get_value_type(v) ==
    CASE v.t = "NUMBER" -> Ok(v.value)
      [] v.t = "STRING" -> Panic("value can't be converted")
      [] v.t = "BOOL" -> Ok(BoolAsNumber(v.b))
      [] v.t = "FUNCTION" -> Panic("could not get value type")
      [] v.t = "NONE" -> Panic("could not get value type")

\* NumberType is zero: INT(v) => v == 0, FLOAT(v) => v == 0.0
IsZero(nt) == nt.d # 0 /\ nt.n = 0

\* ChNumber::is_true
ChNumber_is_true(nt) == IF nt.k = "INT" THEN nt.n # 0 ELSE ~(nt.d # 0 /\ nt.n = 0)

\* ChType::is_true
is_true(v) ==
    CASE v.t = "NUMBER" -> ChNumber_is_true(v.value)
      [] v.t = "STRING" -> Len(v.string) # 0
      [] v.t = "NONE" -> FALSE
      [] v.t = "BOOL" -> v.b
      [] v.t = "FUNCTION" -> TRUE

\* ChNumber::operate_on
operate_on(self, other, op) ==
    IF self.k = "INT" /\ other.k = "INT"
    THEN LET r == IntOp(op, self.n, other.n)
         IN IF r.k = "Ok" THEN Ok(ChNumber(r.v)) ELSE r
    ELSE Ok(ChNumber(FloatOp(op, AsFloat(self), AsFloat(other))))

\* ChNumber::add, sub, mult
ChNumber_arith(self, op, other) ==
    LET c == convert(other)
    IN IF c.k # "Ok" THEN c ELSE operate_on(self, c.v, op)

\* ChNumber::div
ChNumber_div(self, other) ==
    LET g == get_value_type(other)
    IN IF g.k # "Ok" THEN g
       ELSE IF IsZero(g.v) THEN Err("Runtime", "Division by 0", <<>>)
       ELSE LET c == convert(other)
            IN IF c.k # "Ok" THEN c ELSE operate_on(self, c.v, "DIV")

\* ChNumber::pow, as if an Int exponent of 0 took the general path
ChNumber_pow_NoShortCircuit(self, other) ==
    LET c == convert(other)
    IN IF c.k # "Ok" THEN c ELSE operate_on(self, c.v, "POW")

\* ChNumber::pow
ChNumber_pow(self, other) ==
    LET g == get_value_type(other)
    IN IF g.k # "Ok" THEN g
       ELSE IF g.v.k = "INT" /\ g.v.n = 0 THEN Ok(ChNumber(INT(0)))
       ELSE LET c == convert(other)
            IN IF c.k # "Ok" THEN c ELSE operate_on(self, c.v, "POW")

\* the comparison of two NumberTypes made by equal .. greater_equal
NumCompare(op, a, b) ==
    LET x == AsFloat(a)
        y == AsFloat(b)
    IN CASE op = "EQUAL" -> FEq(x, y)
         [] op = "NEQUAL" -> ~FEq(x, y)
         [] op = "LESS" -> FLess(x, y)
         [] op = "LESSEQ" -> FLess(x, y) \/ FEq(x, y)
         [] op = "GREATER" -> FLess(y, x)
         [] op = "GREATEREQ" -> FLess(y, x) \/ FEq(x, y)

\* ChNumber::equal, not_equal: a conversion error compares false
ChNumber_equal(self, op, other) ==
    LET c == convert(other)
    IN CASE c.k = "Ok" -> Ok(ChBool(NumCompare(op, self, c.v)))
         [] c.k = "Err" -> Ok(ChBool(FALSE))
         [] OTHER -> c

\* ChNumber::less, less_equal, greater, greater_equal
ChNumber_order(self, op, other) ==
    LET c == convert(other)
    IN IF c.k # "Ok" THEN c ELSE Ok(ChBool(NumCompare(op, self, c.v)))

\* v >= 1 (INT) / v >= 1.0 (FLOAT)
AtLeastOne(nt) == nt.d # 0 /\ nt.n >= nt.d

\* ChNumber::and, or
ChNumber_logic(self, op, other) ==
    LET c == convert(other)
    IN IF c.k # "Ok" THEN c
       ELSE Ok(ChBool(IF op = "AND" THEN AtLeastOne(self) /\ AtLeastOne(c.v)
                    ELSE AtLeastOne(self) \/ AtLeastOne(c.v)))

\* ChNumber::not
ChNumber_not(self) == Ok(ChBool(~ChNumber_is_true(self)))

\* ChNumber::negate
ChNumber_negate(self) ==
    IF self.k = "INT"
    THEN LET r == IntResult(-self.n) IN IF r.k = "Ok" THEN Ok(ChNumber(r.v)) ELSE r
    ELSE Ok(ChNumber(IF self.d = 0 THEN FloatOther ELSE FLOAT(-self.n, self.d)))

\* the default of every ChOperators method, as if it reported a Runtime error
UndefinedOperator_AsRuntime(opname, v) ==
    Err("Runtime", "operation not defined for type", <<opname, get_desc(v)>>)

\* the default of every ChOperators method
UndefinedOperator(opname, v) ==
    Err("UndefinedOperator", "operation not defined for type", <<opname, get_desc(v)>>)

OpName(op) ==
    CASE op = "ADD" -> "add"
      [] op = "SUB" -> "sub"
      [] op = "MUL" -> "mult"
      [] op = "DIV" -> "div"
      [] op = "POW" -> "pow"
      [] op = "LESS" -> "less"
      [] op = "EQUAL" -> "equal"
      [] op = "NEQUAL" -> "not equal"
      [] op = "LESSEQ" -> "less equal"
      [] op = "GREATER" -> "greater"
      [] op = "GREATEREQ" -> "greater equal"
      [] op = "AND" -> "and"
      [] op = "OR" -> "or"

Digit(i) == SubSeq("0123456789", i + 1, i + 1)

\* Display of a non-negative integer
RECURSIVE NatToString(_)
NatToString(i) == IF i < 10 THEN Digit(i) ELSE NatToString(i \div 10) \o Digit(i % 10)

\* Display of a ChNumber; a FLOAT with a fractional part is shown as n/d
NumberToString(nt) ==
    LET body == IF nt.d = 1 THEN NatToString(Abs(nt.n))
                ELSE IF nt.d = 0 THEN "NaN"
                ELSE NatToString(Abs(nt.n)) \o "/" \o NatToString(nt.d)
    IN IF nt.n < 0 THEN "-" \o body ELSE body

\* ChString::add (add_equal delegates to it)
ChString_add(self, other) ==
    CASE other.t = "NUMBER" -> Ok(ChString(self.string \o NumberToString(other.value)))
      [] other.t = "STRING" -> Ok(ChString(self.string \o other.string))
      [] OTHER -> Err("Runtime", "can't add to String", <<>>)

\* ChBool::equal, not_equal
ChBool_equal(self, op, other) ==
    IF other.t = "BOOL"
    THEN Ok(ChBool(IF op = "EQUAL" THEN self.b = other.b ELSE self.b # other.b))
    ELSE Ok(ChBool(op # "EQUAL"))

\* ChBool::and, or
ChBool_logic(self, op, other) ==
    Ok(ChBool(IF op = "AND" THEN self.b /\ is_true(other) ELSE self.b \/ is_true(other)))

\* ChNone::equal, not_equal
ChNone_equal(self, op, other) ==
    Ok(ChBool(IF op = "EQUAL" THEN other.t = "NONE" ELSE other.t # "NONE"))

\* binop_chvalue: dispatch of a binary operator on the left operand's variant
binop_chvalue(left, op, right) ==
    CASE left.t = "NUMBER" ->
            (CASE op \in {"ADD", "SUB", "MUL"} -> ChNumber_arith(left.value, op, right)
               [] op = "DIV" -> ChNumber_div(left.value, right)
               [] op = "POW" -> ChNumber_pow(left.value, right)
               [] op \in {"EQUAL", "NEQUAL"} -> ChNumber_equal(left.value, op, right)
               [] op \in {"LESS", "LESSEQ", "GREATER", "GREATEREQ"} ->
                     ChNumber_order(left.value, op, right)
               [] op \in {"AND", "OR"} -> ChNumber_logic(left.value, op, right))
      [] left.t = "STRING" ->
            IF op = "ADD" THEN ChString_add(left, right)
            ELSE UndefinedOperator(OpName(op), left)
      [] left.t = "BOOL" ->
            (CASE op \in {"EQUAL", "NEQUAL"} -> ChBool_equal(left, op, right)
               [] op \in {"AND", "OR"} -> ChBool_logic(left, op, right)
               [] OTHER -> UndefinedOperator(OpName(op), left))
      [] left.t = "NONE" ->
            IF op \in {"EQUAL", "NEQUAL"} THEN ChNone_equal(left, op, right)
            ELSE UndefinedOperator(OpName(op), left)
      [] left.t = "FUNCTION" -> UndefinedOperator(OpName(op), left)

\* add_equal / sub_equal: the defaults delegate to add / sub
add_equal(left, right) == binop_chvalue(left, "ADD", right)
sub_equal(left, right) == binop_chvalue(left, "SUB", right)

\* unryop_chvalue: SUB => negate, KEYWRD(NOT) => not, anything else panics
unryop_chvalue(op, v) ==
    CASE op = "SUB" ->
            IF v.t = "NUMBER" THEN ChNumber_negate(v.value)
            ELSE UndefinedOperator("negate", v)
      [] op = "NOT" ->
            (CASE v.t = "NUMBER" -> ChNumber_not(v.value)
               [] v.t = "BOOL" -> Ok(ChBool(~v.b))
               [] OTHER -> UndefinedOperator("not", v))
      [] OTHER -> Panic("called unryop_self")

----------------------------------------------------------------------------
(* SymbolTable and Context.  A Context is held in heap under its index;    *)
(* parent = 0 is None.  An Option is a sequence of length 0 or 1.          *)

NoParent == 0
RootContext == 1

\* SymbolTable::empty
SymbolTable_empty == [table |-> <<>>, immutable |-> {}]

\* SymbolTable::get
SymbolTable_get(st, key) ==
    IF key \in DOMAIN st.table THEN <<st.table[key]>> ELSE <<>>

\* SymbolTable::set_mut, as if it overwrote a name marked immutable
SymbolTable_set_mut_NoConstCheck(st, key, value) ==
    [st |-> [st EXCEPT !.table = (key :> value) @@ @], ok |-> TRUE]

\* SymbolTable::set_mut, as if it refused every name already in the table
SymbolTable_set_mut_InsertOnly(st, key, value) ==
    IF key \in DOMAIN st.table
    THEN [st |-> st, ok |-> FALSE]
    ELSE [st |-> [st EXCEPT !.table = (key :> value) @@ @], ok |-> TRUE]

\* SymbolTable::set_mut: the new table and the bool returned
SymbolTable_set_mut(st, key, value) ==
    IF key \in DOMAIN st.table /\ key \in st.immutable
    THEN [st |-> st, ok |-> FALSE]
    ELSE [st |-> [st EXCEPT !.table = (key :> value) @@ @], ok |-> TRUE]

\* SymbolTable::set
SymbolTable_set(st, key, value) ==
    LET b == SymbolTable_set_mut(st, key, value)
    IN IF b.ok THEN [st |-> [b.st EXCEPT !.immutable = @ \cup {key}], ok |-> TRUE]
       ELSE b

\* Context::from_parent: the heap with the new Context appended
from_parent(h, display_name, parent) ==
    Append(h, [display_name |-> display_name, parent |-> parent,
               symbol_table |-> SymbolTable_empty])

\* Context::get, as if it consulted the local table only
Context_get_LocalOnly(h, c, key) == SymbolTable_get(h[c].symbol_table, key)

\* Context::get: the local table, then the parent chain
RECURSIVE Context_get(_, _, _)

\* Context::get, as if the parent chain were consulted before the local table
Context_get_OutermostFirst(h, c, key) ==
    IF h[c].parent # NoParent /\ Len(Context_get(h, h[c].parent, key)) = 1
    THEN Context_get(h, h[c].parent, key)
    ELSE SymbolTable_get(h[c].symbol_table, key)

Context_get(h, c, key) ==
    LET e == SymbolTable_get(h[c].symbol_table, key)
    IN IF Len(e) = 1 THEN e
       ELSE IF h[c].parent # NoParent THEN Context_get(h, h[c].parent, key)
       ELSE <<>>

\* Context::set_mut, as if a name missing locally but bound in the parent
\* were rebound there
Context_set_mut_WalksToParent(h, c, key, value) ==
    LET target == IF key \notin DOMAIN h[c].symbol_table.table
                     /\ h[c].parent # NoParent
                     /\ key \in DOMAIN h[h[c].parent].symbol_table.table
                  THEN h[c].parent ELSE c
        b == SymbolTable_set_mut(h[target].symbol_table, key, value)
    IN [heap |-> [h EXCEPT ![target].symbol_table = b.st], ok |-> b.ok]

\* Context::set_mut: the local table only
Context_set_mut(h, c, key, value) ==
    LET b == SymbolTable_set_mut(h[c].symbol_table, key, value)
    IN [heap |-> [h EXCEPT ![c].symbol_table = b.st], ok |-> b.ok]

----------------------------------------------------------------------------
(* Node: the AST the parser hands to visit_node *)

NUM(nt) == [type |-> "NUM", value |-> nt]
STRING_NODE(s) == [type |-> "STRING", string |-> s]
BINOP(left, op, right) == [type |-> "BINOP", left |-> left, op |-> op, right |-> right]
UNRYOP(op, node) == [type |-> "UNRYOP", op |-> op, node |-> node]
ASSIGN(id, value) == [type |-> "ASSIGN", id |-> id, value |-> value]
ACCESS(id) == [type |-> "ACCESS", id |-> id]
IF_NODE(cases, else_case) == [type |-> "IF", cases |-> cases, else_case |-> else_case]
WHILE(cond, body) == [type |-> "WHILE", cond |-> cond, body |-> body]
FOR(c1, c2, c3, body) == [type |-> "FOR", c1 |-> c1, c2 |-> c2, c3 |-> c3, body |-> body]
FUNCDEF(name, args, body) == [type |-> "FUNCDEF", name |-> name, args |-> args, body |-> body]
CALL(func, args) == [type |-> "CALL", func |-> func, args |-> args]

----------------------------------------------------------------------------
(* The evaluator.  Every visit takes the node, the index of the Context it *)
(* is evaluated in and the evaluation state s = [heap, log, trace, fuel],   *)
(* and                                                                     *)
(* returns [r |-> result, s |-> state after].  log and trace are history.  *)

Ret(r, s) == [r |-> r, s |-> s]

\* history: one evaluation event
Event(ev, env, name, val) ==
    [ev |-> ev, env |-> env, name |-> name, val |-> val, ok |-> TRUE,
     how |-> "", parent |-> 0, defined_in |-> 0, caller |-> 0,
     p |-> 0, k |-> 0, params |-> <<>>, args |-> <<>>, table |-> <<>>]

Logged(s, e) == [s EXCEPT !.log = Append(@, e)]

\* history: one step of the evaluation, "enter" / "exit" of a node or "bind"
\* of the node, at nesting depth depth (1 for the node interpret is called on)
Step(ev, env, node, r, depth) ==
    [ev |-> ev, env |-> env, node |-> node, r |-> r, depth |-> depth]

Traced(s, e) == [s EXCEPT !.trace = Append(@, e)]

\* a binding through Context::set_mut, with its history event
Bind(s, c, key, value, how) ==
    LET b == Context_set_mut(s.heap, c, key, value)
    IN [s |-> Traced(Logged([s EXCEPT !.heap = b.heap],
                            [Event("bind", c, key, value) EXCEPT !.ok = b.ok, !.how = how]),
                     Step("bind", c, [type |-> "BIND", id |-> key], [k |-> "None"], s.depth)),
        ok |-> b.ok]

\* leaving a node with outcome out
Left(c, node, out) ==
    Ret(out.r, Traced([out.s EXCEPT !.depth = @ - 1],
                      Step("exit", c, node, out.r, out.s.depth)))

RECURSIVE visit_node(_, _, _)

\* visit_numb_node
visit_numb_node(node, c, s) == Ret(Ok(ChNumber(node.value)), s)

\* visit_string_node
visit_string_node(node, c, s) == Ret(Ok(ChString(node.string)), s)

\* visit_access_node
visit_access_node(node, c, s) ==
    LET entry == Context_get(s.heap, c, node.id)
    IN IF Len(entry) = 1
       THEN Ret(Ok(set_context(entry[1], c)), s)
       ELSE Ret(Err("Runtime", "is not defined", <<node.id>>), s)

\* visit_assign_node, as if the bool returned by set_mut were dropped
visit_assign_node_IgnoresConst(node, c, s) ==
    LET v == visit_node(node.value, c, Logged(s, Event("assign", c, node.id, ChNone)))
    IN IF v.r.k # "Ok" THEN v
       ELSE Ret(v.r, Bind(v.s, c, node.id, v.r.v, "assign").s)

\* visit_assign_node
visit_assign_node(node, c, s) ==
    LET v == visit_node(node.value, c, Logged(s, Event("assign", c, node.id, ChNone)))
    IN IF v.r.k # "Ok" THEN v
       ELSE LET b == Bind(v.s, c, node.id, v.r.v, "assign")
            IN IF ~b.ok
               THEN Ret(Err("Runtime", "cannot assign to const", <<node.id>>), b.s)
               ELSE Ret(v.r, b.s)

\* visit_unryop_node
visit_unryop_node(node, c, s) ==
    LET v == visit_node(node.node, c, s)
    IN IF v.r.k # "Ok" THEN v
       ELSE Ret(unryop_chvalue(node.op, v.r.v), v.s)

\* in_de_crement, as if the new value were bound in the enclosing Context
in_de_crement_BindsInParent(node, c, s) ==
    LET left == visit_node(node.left, c, s)
    IN IF left.r.k # "Ok" THEN left
       ELSE LET right == visit_node(node.right, c, left.s)
            IN IF right.r.k # "Ok" THEN right
               ELSE IF node.left.type = "ACCESS"
               THEN LET res == IF node.op = "INCRMNT"
                               THEN add_equal(left.r.v, right.r.v)
                               ELSE sub_equal(left.r.v, right.r.v)
                        to == IF c = RootContext THEN c ELSE right.s.heap[c].parent
                    IN IF res.k # "Ok" THEN Ret(res, right.s)
                       ELSE Ret(res, Bind(right.s, to, node.left.id, res.v, "incr").s)
               ELSE Ret(Err("Runtime", "expected LVALUE", <<>>), right.s)

\* in_de_crement
in_de_crement(node, c, s) ==
    LET left == visit_node(node.left, c, s)
    IN IF left.r.k # "Ok" THEN left
       ELSE LET right == visit_node(node.right, c, left.s)
            IN IF right.r.k # "Ok" THEN right
               ELSE IF node.left.type = "ACCESS"
               THEN LET res == IF node.op = "INCRMNT"
                               THEN add_equal(left.r.v, right.r.v)
                               ELSE sub_equal(left.r.v, right.r.v)
                    IN IF res.k # "Ok" THEN Ret(res, right.s)
                       ELSE Ret(res, Bind(right.s, c, node.left.id, res.v, "incr").s)
               ELSE Ret(Err("Runtime", "expected LVALUE", <<>>), right.s)

\* visit_binop_node, as if the right operand were evaluated before the left
\* operand's error is returned
visit_binop_node_EvaluatesBoth(node, c, s) ==
    IF node.op \in {"INCRMNT", "DECRMNT"} THEN in_de_crement(node, c, s)
    ELSE LET left == visit_node(node.left, c, s)
             right == visit_node(node.right, c, left.s)
         IN IF left.r.k # "Ok" THEN Ret(left.r, right.s)
            ELSE IF right.r.k # "Ok" THEN right
            ELSE Ret(binop_chvalue(left.r.v, node.op, right.r.v), right.s)

\* visit_binop_node, as if && and || skipped the right operand when a Bool on
\* the left decides the result
visit_binop_node_ShortCircuit(node, c, s) ==
    IF node.op \in {"INCRMNT", "DECRMNT"} THEN in_de_crement(node, c, s)
    ELSE LET left == visit_node(node.left, c, s)
         IN IF left.r.k # "Ok" THEN left
            ELSE IF /\ left.r.v.t = "BOOL"
                    /\ \/ node.op = "AND" /\ ~left.r.v.b
                       \/ node.op = "OR" /\ left.r.v.b
            THEN Ret(Ok(left.r.v), left.s)
            ELSE LET right == visit_node(node.right, c, left.s)
                 IN IF right.r.k # "Ok" THEN right
                    ELSE Ret(binop_chvalue(left.r.v, node.op, right.r.v), right.s)

\* visit_binop_node
visit_binop_node(node, c, s) ==
    IF node.op \in {"INCRMNT", "DECRMNT"} THEN in_de_crement(node, c, s)
    ELSE LET left == visit_node(node.left, c, s)
         IN IF left.r.k # "Ok" THEN left
            ELSE LET right == visit_node(node.right, c, left.s)
                 IN IF right.r.k # "Ok" THEN right
                    ELSE Ret(binop_chvalue(left.r.v, node.op, right.r.v), right.s)

\* visit_if_node: the cases from the i-th on, then the else case
RECURSIVE if_cases(_, _, _, _)
if_cases(node, i, c, s) ==
    IF i > Len(node.cases)
    THEN IF Len(node.else_case) = 1 THEN visit_node(node.else_case[1], c, s)
         ELSE Ret(Ok(ChNone), s)
    ELSE LET cond == visit_node(node.cases[i][1], c, s)
         IN IF cond.r.k # "Ok" THEN cond
            ELSE IF is_true(cond.r.v) THEN visit_node(node.cases[i][2], c, cond.s)
            ELSE if_cases(node, i + 1, c, cond.s)

\* visit_if_node, as if the else body were evaluated after the chosen case too
visit_if_node_AlsoElse(node, c, s) ==
    LET first == if_cases(node, 1, c, s)
    IN IF first.r.k = "Ok" /\ Len(node.else_case) = 1
       THEN visit_node(node.else_case[1], c, first.s)
       ELSE first

\* visit_if_node
visit_if_node(node, c, s) == if_cases(node, 1, c, s)

\* the while loop of visit_for_node, run in the loop's Context n
RECURSIVE for_loop(_, _, _)
for_loop(node, n, s) ==
    LET cond == visit_node(node.c2, n, s)
    IN IF cond.r.k # "Ok" THEN cond
       ELSE IF ~is_true(cond.r.v) THEN Ret(Ok(ChNone), cond.s)
       ELSE IF cond.s.fuel = 0 THEN Ret(Diverge, cond.s)
       ELSE LET body == visit_node(node.body, n, [cond.s EXCEPT !.fuel = @ - 1])
            IN IF body.r.k # "Ok" THEN body
               ELSE LET step == IF Len(node.c3) = 1
                                THEN visit_node(node.c3[1], n, body.s)
                                ELSE body
                    IN IF step.r.k # "Ok" THEN step
                       ELSE for_loop(node, n, step.s)

\* visit_for_node, as if init were evaluated in the enclosing Context
visit_for_node_InitInParent(node, c, s) ==
    LET n == Len(s.heap) + 1
        s1 == [s EXCEPT !.heap = from_parent(s.heap, "<for>", c)]
        init == IF Len(node.c1) = 1 THEN visit_node(node.c1[1], c, s1)
                ELSE Ret(Ok(ChNone), s1)
    IN IF init.r.k # "Ok" THEN init ELSE for_loop(node, n, init.s)

\* visit_for_node
visit_for_node(node, c, s) ==
    LET n == Len(s.heap) + 1
        s1 == [s EXCEPT !.heap = from_parent(s.heap, "<for>", c)]
        init == IF Len(node.c1) = 1 THEN visit_node(node.c1[1], n, s1)
                ELSE Ret(Ok(ChNone), s1)
    IN IF init.r.k # "Ok" THEN init ELSE for_loop(node, n, init.s)

\* the while loop of visit_while_node: condition in c, body in n
RECURSIVE while_loop(_, _, _, _)
while_loop(node, c, n, s) ==
    LET cond == visit_node(node.cond, c, s)
    IN IF cond.r.k # "Ok" THEN cond
       ELSE IF ~is_true(cond.r.v) THEN Ret(Ok(ChNone), cond.s)
       ELSE IF cond.s.fuel = 0 THEN Ret(Diverge, cond.s)
       ELSE LET body == visit_node(node.body, n, [cond.s EXCEPT !.fuel = @ - 1])
            IN IF body.r.k # "Ok" THEN body
               ELSE while_loop(node, c, n, body.s)

\* visit_while_node, as if the condition were evaluated in the loop's Context
visit_while_node_CondInChild(node, c, s) ==
    while_loop(node, Len(s.heap) + 1, Len(s.heap) + 1,
               [s EXCEPT !.heap = from_parent(s.heap, "<while>", c)])

\* visit_while_node
visit_while_node(node, c, s) ==
    while_loop(node, c, Len(s.heap) + 1,
               [s EXCEPT !.heap = from_parent(s.heap, "<while>", c)])

\* visit_funcdef_node
visit_funcdef_node(node, c, s) ==
    LET name == IF Len(node.name) = 1 THEN node.name[1] ELSE "lambda"
        func == ChronosFunc(name, node.args, node.body, c)
    IN IF Len(node.name) = 1
       THEN Ret(Ok(func), Bind(s, c, name, func, "funcdef").s)
       ELSE Ret(Ok(func), s)

\* ch_print
ch_print(args, s) == Ret(Ok(ChNone), Logged(s, [Event("print", 0, "", ChNone) EXCEPT !.args = args]))

\* ch_len
ch_len(args, s) ==
    IF Len(args) # 1 THEN Ret(Err("Runtime", "Expected 1 argument", <<Len(args)>>), s)
    ELSE IF args[1].t = "STRING" THEN Ret(Ok(ChNumber(INT(Len(args[1].string)))), s)
    ELSE Ret(Err("Runtime", "has no len", <<>>), s)

\* RustFunc::execute
RustFunc_execute(func, args, s) ==
    IF func.name = "print" THEN ch_print(args, s) ELSE ch_len(args, s)

\* the parameter loop of ChronosFunc::execute, from the i-th parameter on
RECURSIVE bind_params(_, _, _, _, _)
bind_params(func, args, i, n, s) ==
    IF i > Len(args) THEN s
    ELSE bind_params(func, args, i + 1, n,
                     Bind(s, n, func.args_name[i],
                          set_context(args[i], func.context), "param").s)

\* ChronosFunc::execute, as if the argument count were not compared
ChronosFunc_execute_NoArityCheck(func, args, caller, s) ==
    LET n == Len(s.heap) + 1
        s1 == Logged([s EXCEPT !.heap = from_parent(s.heap, "<function>", func.context)],
                     [Event("call", n, func.name, ChNone) EXCEPT
                        !.parent = func.context, !.defined_in = func.defined_in,
                        !.caller = caller, !.p = Len(func.args_name),
                        !.k = Len(args), !.params = func.args_name, !.args = args])
        m == IF Len(args) < Len(func.args_name) THEN Len(args) ELSE Len(func.args_name)
        s2 == bind_params(func, SubSeq(args, 1, m), 1, n, s1)
    IN IF s2.fuel = 0 THEN Ret(Diverge, s2)
       ELSE visit_node(func.body, n,
                       Logged([s2 EXCEPT !.fuel = @ - 1],
                              [Event("body", n, func.name, ChNone) EXCEPT
                                 !.table = s2.heap[n].symbol_table.table]))

\* ChronosFunc::execute
ChronosFunc_execute(func, args, caller, s) ==
    LET n == Len(s.heap) + 1
        s1 == Logged([s EXCEPT !.heap = from_parent(s.heap, "<function>", func.context)],
                     [Event("call", n, func.name, ChNone) EXCEPT
                        !.parent = func.context, !.defined_in = func.defined_in,
                        !.caller = caller, !.p = Len(func.args_name),
                        !.k = Len(args), !.params = func.args_name, !.args = args])
    IN IF Len(args) # Len(func.args_name)
       THEN Ret(Err("Runtime", "expected arguments, found",
                    <<Len(func.args_name), Len(args), func.name>>), s1)
       ELSE LET s2 == bind_params(func, args, 1, n, s1)
            IN IF s2.fuel = 0 THEN Ret(Diverge, s2)
               ELSE visit_node(func.body, n,
                               Logged([s2 EXCEPT !.fuel = @ - 1],
                                      [Event("body", n, func.name, ChNone) EXCEPT
                                         !.table = s2.heap[n].symbol_table.table]))

\* the argument loop of visit_call_node: [r |-> Ok(values) or the first
\* failure, s |-> state after]
RECURSIVE visit_args(_, _, _, _, _)
visit_args(args, i, acc, c, s) ==
    IF i > Len(args) THEN Ret(Ok(acc), s)
    ELSE LET a == visit_node(args[i], c, s)
         IN IF a.r.k # "Ok" THEN a
            ELSE visit_args(args, i + 1, Append(acc, a.r.v), c, a.s)

\* visit_call_node, as if the arguments were evaluated before the callee is
\* found to be no function
visit_call_node_ArgsFirst(node, c, s) ==
    LET f == visit_node(node.func, c, s)
    IN IF f.r.k # "Ok" THEN f
       ELSE LET a == visit_args(node.args, 1, <<>>, c, f.s)
            IN IF a.r.k # "Ok" THEN a
               ELSE IF f.r.v.t # "FUNCTION"
               THEN Ret(Err("Runtime", "expected FUNCTION", <<>>), a.s)
               ELSE IF f.r.v.func_type = "RUSTFUNC"
               THEN RustFunc_execute(f.r.v, a.r.v, a.s)
               ELSE ChronosFunc_execute(set_context(f.r.v, c), a.r.v, c, a.s)

\* visit_call_node
visit_call_node(node, c, s) ==
    LET f == visit_node(node.func, c, s)
    IN IF f.r.k # "Ok" THEN f
       ELSE IF f.r.v.t # "FUNCTION"
       THEN Ret(Err("Runtime", "expected FUNCTION", <<>>), f.s)
       ELSE LET a == visit_args(node.args, 1, <<>>, c, f.s)
            IN IF a.r.k # "Ok" THEN a
               ELSE IF f.r.v.func_type = "RUSTFUNC"
               THEN RustFunc_execute(f.r.v, a.r.v, a.s)
               ELSE ChronosFunc_execute(set_context(f.r.v, c), a.r.v, c, a.s)

\* visit_node
visit_node(node, c, s) ==
    LET s0 == Traced([s EXCEPT !.depth = @ + 1],
                     Step("enter", c, node, [k |-> "None"], s.depth + 1))
        out == CASE node.type = "NUM" -> visit_numb_node(node, c, s0)
                 [] node.type = "STRING" -> visit_string_node(node, c, s0)
                 [] node.type = "UNRYOP" -> visit_unryop_node(node, c, s0)
                 [] node.type = "BINOP" -> visit_binop_node(node, c, s0)
                 [] node.type = "ACCESS" -> visit_access_node(node, c, s0)
                 [] node.type = "ASSIGN" -> visit_assign_node(node, c, s0)
                 [] node.type = "IF" -> visit_if_node(node, c, s0)
                 [] node.type = "WHILE" -> visit_while_node(node, c, s0)
                 [] node.type = "FOR" -> visit_for_node(node, c, s0)
                 [] node.type = "FUNCDEF" -> visit_funcdef_node(node, c, s0)
                 [] node.type = "CALL" -> visit_call_node(node, c, s0)
    IN Left(c, node, out)

----------------------------------------------------------------------------
(* Compiler *)

\* the names Compiler::new seeds, and the value each is bound to
Builtins == {"false", "true", "none", "print", "len"}

BuiltinValue(name) ==
    CASE name = "false" -> ChBool(FALSE)
      [] name = "true" -> ChBool(TRUE)
      [] name = "none" -> ChNone
      [] name = "print" -> RustFunc("print")
      [] name = "len" -> RustFunc("len")

\* Compiler::new: the global Context, its table filled by SymbolTable::set
Compiler_new ==
    LET t1 == SymbolTable_set(SymbolTable_empty, "false", BuiltinValue("false")).st
        t2 == SymbolTable_set(t1, "true", BuiltinValue("true")).st
        t3 == SymbolTable_set(t2, "none", BuiltinValue("none")).st
        t4 == SymbolTable_set(t3, "print", BuiltinValue("print")).st
        t5 == SymbolTable_set(t4, "len", BuiltinValue("len")).st
    IN <<[display_name |-> "<module>", parent |-> NoParent, symbol_table |-> t5]>>

\* Programs: the ASTs Parser::parse yields for the source texts interpret is
\* called with in this model (each text is one expression).
Lit(i) == NUM(INT(i))
Call0(f) == CALL(ACCESS(f), <<>>)
Call1(f, a) == CALL(ACCESS(f), <<a>>)

\* x = 1
P_assign_x == ASSIGN("x", Lit(1))
\* x
P_access_x == ACCESS("x")
\* x += 2
P_incr_x == BINOP(ACCESS("x"), "INCRMNT", Lit(2))
\* fn g() { x }
P_def_g == FUNCDEF(<<"g">>, <<>>, ACCESS("x"))
\* fn h(x) { g() }
P_def_h == FUNCDEF(<<"h">>, <<"x">>, Call0("g"))
\* h(2)
P_call_h == Call1("h", Lit(2))
\* fn make(a) { fn (b) { a + b } }
P_def_make ==
    FUNCDEF(<<"make">>, <<"a">>,
            FUNCDEF(<<>>, <<"b">>, BINOP(ACCESS("a"), "ADD", ACCESS("b"))))
\* (make(1))(2)
P_call_make == CALL(Call1("make", Lit(1)), <<Lit(2)>>)
\* fn add(a, b) { a + b }
P_def_add == FUNCDEF(<<"add">>, <<"a", "b">>, BINOP(ACCESS("a"), "ADD", ACCESS("b")))
\* add(2, 3)
P_call_add_2 == CALL(ACCESS("add"), <<Lit(2), Lit(3)>>)
\* add(1)
P_call_add_1 == CALL(ACCESS("add"), <<Lit(1)>>)
\* add(1, 2, x = 3)
P_call_add_3 == CALL(ACCESS("add"), <<Lit(1), Lit(2), ASSIGN("x", Lit(3))>>)
\* fn f(n) { if n < 1 { 0 } else { n + f(n - 1) } }
P_def_f ==
    FUNCDEF(<<"f">>, <<"n">>,
            IF_NODE(<<<<BINOP(ACCESS("n"), "LESS", Lit(1)), Lit(0)>>>>,
                    <<BINOP(ACCESS("n"), "ADD",
                            Call1("f", BINOP(ACCESS("n"), "SUB", Lit(1))))>>))
\* f(n)
P_call_f(n) == Call1("f", Lit(n))
\* name = 1, for a seeded name
P_assign_builtin(name) == ASSIGN(name, Lit(1))
\* for true = 0; true < 1; true += 1 { x = 2 }
P_for_true ==
    FOR(<<ASSIGN("true", Lit(0))>>, BINOP(ACCESS("true"), "LESS", Lit(1)),
        <<BINOP(ACCESS("true"), "INCRMNT", Lit(1))>>, ASSIGN("x", Lit(2)))
\* true += 1
P_incr_true == BINOP(ACCESS("true"), "INCRMNT", Lit(1))
\* fn true() { 1 }
P_def_true == FUNCDEF(<<"true">>, <<>>, Lit(1))
\* fn bump() { x += 1 }
P_def_bump == FUNCDEF(<<"bump">>, <<>>, BINOP(ACCESS("x"), "INCRMNT", Lit(1)))
\* bump()
P_call_bump == Call0("bump")
\* while x < 2 { x = 2 }
P_while_x == WHILE(BINOP(ACCESS("x"), "LESS", Lit(2)), ASSIGN("x", Lit(2)))
\* true = y
P_assign_true_undefined == ASSIGN("true", ACCESS("y"))

Programs ==
    {P_assign_x, P_access_x, P_incr_x, P_def_g, P_def_h, P_call_h,
     P_def_make, P_call_make, P_def_add, P_call_add_2, P_call_add_1,
     P_call_add_3, P_def_f, P_for_true, P_incr_true, P_def_true,
     P_def_bump, P_call_bump, P_while_x, P_assign_true_undefined}
    \cup {P_call_f(n) : n \in 0..MaxN}
    \cup {P_assign_builtin(name) : name \in Builtins}

\* history: the successful bindings of a log made in the global Context,
\* applied in order to the map top
RECURSIVE TopBindings(_, _, _)
TopBindings(top, events, i) ==
    IF i > Len(events) THEN top
    ELSE TopBindings(IF events[i].ev = "bind" /\ events[i].env = RootContext /\ events[i].ok
                     THEN (events[i].name :> events[i].val) @@ top
                     ELSE top,
                     events, i + 1)

NoProgram == [type |-> "NONE"]
NoResult == [k |-> "None"]
NoOperand == [t |-> "NONE"]

Init ==
    /\ heap = Compiler_new
    /\ calls = 0
    /\ program = NoProgram
    /\ result = NoResult
    /\ log = <<>>
    /\ before = Compiler_new
    /\ lastTop = <<>>
    /\ trace = <<>>
    /\ overflow_checks \in BOOLEAN
    /\ op_left = NoOperand
    /\ op_name = ""
    /\ op_right = NoOperand
    /\ op_result = NoResult
    /\ text = <<>>
    /\ tokens = NoResult
    /\ scanned = <<>>
    /\ parser_tokens = <<>>
    /\ parsed = NoResult

\* Compiler::interpret, as if every call started from a fresh global Context
Interpret_FreshRoot(ast) ==
    /\ calls < MaxCalls
    /\ result.k \notin {"Panic", "Diverge"}
    /\ LET out == visit_node(ast, RootContext,
                             [heap |-> Compiler_new, log |-> <<>>, trace |-> <<>>, depth |-> 0,
                              fuel |-> MaxFuel])
       IN /\ heap' = out.s.heap
          /\ result' = out.r
          /\ log' = out.s.log
          /\ trace' = out.s.trace
          /\ lastTop' = TopBindings(lastTop, out.s.log, 1)
    /\ before' = Compiler_new
    /\ program' = ast
    /\ calls' = calls + 1
    /\ UNCHANGED <<overflow_checks, op_left, op_name, op_right, op_result,
                   text, tokens, scanned,
                   parser_tokens, parsed>>

\* Compiler::interpret on the text whose AST is ast: visit_node on the
\* global Context.  A panic or a call that never returns ends the process.
Interpret(ast) ==
    /\ calls < MaxCalls
    /\ result.k \notin {"Panic", "Diverge"}
    /\ LET out == visit_node(ast, RootContext,
                             [heap |-> heap, log |-> <<>>, trace |-> <<>>, depth |-> 0,
                              fuel |-> MaxFuel])
       IN /\ heap' = out.s.heap
          /\ result' = out.r
          /\ log' = out.s.log
          /\ trace' = out.s.trace
          /\ lastTop' = TopBindings(lastTop, out.s.log, 1)
    /\ before' = heap
    /\ program' = ast
    /\ calls' = calls + 1
    /\ UNCHANGED <<overflow_checks, op_left, op_name, op_right, op_result,
                   text, tokens, scanned,
                   parser_tokens, parsed>>

Next == \E ast \in Programs : Interpret(ast)

Spec == Init /\ [][Next]_vars

----------------------------------------------------------------------------
(* Further source texts, interpreted in sequences of their own: branching  *)
(* and failing evaluations, and loops.                                     *)

\* x = 0
P_assign_x0 == ASSIGN("x", Lit(0))
\* fn r() { 1 }
P_def_r1 == FUNCDEF(<<"r">>, <<>>, Lit(1))
\* fn r() { 2 }
P_def_r2 == FUNCDEF(<<"r">>, <<>>, Lit(2))
\* r()
P_call_r == Call0("r")
\* if x < 1 { a = 1 } elif x < 2 { a = 2 } elif (t = x) < 3 { a = 3 } else { a = 4 }
P_if_else ==
    IF_NODE(<<<<BINOP(ACCESS("x"), "LESS", Lit(1)), ASSIGN("a", Lit(1))>>,
              <<BINOP(ACCESS("x"), "LESS", Lit(2)), ASSIGN("a", Lit(2))>>,
              <<BINOP(ASSIGN("t", ACCESS("x")), "LESS", Lit(3)), ASSIGN("a", Lit(3))>>>>,
            <<ASSIGN("a", Lit(4))>>)
\* if x < 1 { b = 1 } elif (t = x) < 2 { b = 2 }
P_if_only ==
    IF_NODE(<<<<BINOP(ACCESS("x"), "LESS", Lit(1)), ASSIGN("b", Lit(1))>>,
              <<BINOP(ASSIGN("t", ACCESS("x")), "LESS", Lit(2)), ASSIGN("b", Lit(2))>>>>,
            <<>>)
\* u + (x = 5)
P_err_operand == BINOP(ACCESS("u"), "ADD", ASSIGN("x", Lit(5)))
\* print(u, x = 5)
P_err_arg == CALL(ACCESS("print"), <<ACCESS("u"), ASSIGN("x", Lit(5))>>)
\* if u { x = 5 } else { x = 6 }
P_err_cond == IF_NODE(<<<<ACCESS("u"), ASSIGN("x", Lit(5))>>>>, <<ASSIGN("x", Lit(6))>>)
\* for i = 0; i < 2; i += 1 { z = 1 / (1 - i) }
P_for_div ==
    FOR(<<ASSIGN("i", Lit(0))>>, BINOP(ACCESS("i"), "LESS", Lit(2)),
        <<BINOP(ACCESS("i"), "INCRMNT", Lit(1))>>,
        ASSIGN("z", BINOP(Lit(1), "DIV", BINOP(Lit(1), "SUB", ACCESS("i")))))

Scenarios ==
    {P_assign_x0, P_assign_x, P_incr_x, P_def_r1, P_def_r2, P_call_r,
     P_if_else, P_if_only, P_err_operand, P_err_arg, P_err_cond, P_for_div}

NextScenarios == \E ast \in Scenarios : Interpret(ast)

SpecScenarios == Init /\ [][NextScenarios]_vars

----------------------------------------------------------------------------
(* Loops, interpreted in sequences of their own.                           *)

\* x = 2
P_assign_x2 == ASSIGN("x", Lit(2))
\* for i = 0; i < 2; i = j { j = i + 1 }
P_for_carry ==
    FOR(<<ASSIGN("i", Lit(0))>>, BINOP(ACCESS("i"), "LESS", Lit(2)),
        <<ASSIGN("i", ACCESS("j"))>>,
        ASSIGN("j", BINOP(ACCESS("i"), "ADD", Lit(1))))
\* for ; x < 2; x += 1 { k = x }
P_for_noinit ==
    FOR(<<>>, BINOP(ACCESS("x"), "LESS", Lit(2)),
        <<BINOP(ACCESS("x"), "INCRMNT", Lit(1))>>, ASSIGN("k", ACCESS("x")))
\* for i = 0; i < 1; { i += 1 }
P_for_nostep ==
    FOR(<<ASSIGN("i", Lit(0))>>, BINOP(ACCESS("i"), "LESS", Lit(1)), <<>>,
        BINOP(ACCESS("i"), "INCRMNT", Lit(1)))
\* for x = x + 1; x < 3; x += 1 { fn x() { 1 } }
P_for_def ==
    FOR(<<ASSIGN("x", BINOP(ACCESS("x"), "ADD", Lit(1)))>>,
        BINOP(ACCESS("x"), "LESS", Lit(3)),
        <<BINOP(ACCESS("x"), "INCRMNT", Lit(1))>>,
        FUNCDEF(<<"x">>, <<>>, Lit(1)))
\* while x < 2 { x += 1 }
P_while_incr ==
    WHILE(BINOP(ACCESS("x"), "LESS", Lit(2)), BINOP(ACCESS("x"), "INCRMNT", Lit(1)))
\* while x < 2 { fn x() { 1 } }
P_while_def == WHILE(BINOP(ACCESS("x"), "LESS", Lit(2)), FUNCDEF(<<"x">>, <<>>, Lit(1)))
\* while x < 2 { bump() }
P_while_call == WHILE(BINOP(ACCESS("x"), "LESS", Lit(2)), Call0("bump"))
\* while x < 2 { u }
P_while_err == WHILE(BINOP(ACCESS("x"), "LESS", Lit(2)), ACCESS("u"))

\* i = 7
P_assign_i == ASSIGN("i", Lit(7))
\* for i = 0; i < n; i += 1 { k = i }
P_for_count(n) ==
    FOR(<<ASSIGN("i", Lit(0))>>, BINOP(ACCESS("i"), "LESS", Lit(n)),
        <<BINOP(ACCESS("i"), "INCRMNT", Lit(1))>>, ASSIGN("k", ACCESS("i")))

Loops ==
    {P_assign_x0, P_assign_x, P_assign_x2, P_def_bump, P_assign_i,
     P_for_div, P_for_carry, P_for_noinit, P_for_nostep, P_for_def,
     P_while_x, P_while_incr, P_while_def, P_while_call, P_while_err}
    \cup {P_for_count(n) : n \in 0..MaxN}

\* interpret calls in a sequence of loops
MaxPasses == 3

NextLoops ==
    /\ calls < MaxPasses
    /\ \E ast \in Loops : Interpret(ast)

SpecLoops == Init /\ [][NextLoops]_vars

----------------------------------------------------------------------------
(* Operands and arguments with effects, interpreted in sequences of their  *)
(* own.                                                                    *)

\* 1 += 2
P_lvalue_plain == BINOP(Lit(1), "INCRMNT", Lit(2))
\* 1 += u
P_lvalue_err == BINOP(Lit(1), "INCRMNT", ACCESS("u"))
\* (z = 5) -= 1
P_lvalue_bind == BINOP(ASSIGN("z", Lit(5)), "DECRMNT", Lit(1))
\* x(y = 5)
P_call_x == CALL(ACCESS("x"), <<ASSIGN("y", Lit(5))>>)
\* 1(y = 5)
P_call_number == CALL(Lit(1), <<ASSIGN("y", Lit(5))>>)
\* add(y = 1, y + 1)
P_call_add_order ==
    CALL(ACCESS("add"), <<ASSIGN("y", Lit(1)), BINOP(ACCESS("y"), "ADD", Lit(1))>>)
\* add(u, y = 1)
P_call_add_err == CALL(ACCESS("add"), <<ACCESS("u"), ASSIGN("y", Lit(1))>>)
\* print(y = 2, y)
P_call_print_order == CALL(ACCESS("print"), <<ASSIGN("y", Lit(2)), ACCESS("y")>>)
\* false && (z = 5)
P_and_false == BINOP(ACCESS("false"), "AND", ASSIGN("z", Lit(5)))
\* true || (z = 6)
P_or_true == BINOP(ACCESS("true"), "OR", ASSIGN("z", Lit(6)))
\* false && u
P_and_err == BINOP(ACCESS("false"), "AND", ACCESS("u"))
\* 0 * (z = 7)
P_mul_zero == BINOP(Lit(0), "MUL", ASSIGN("z", Lit(7)))
\* u || (z = 8)
P_or_left_err == BINOP(ACCESS("u"), "OR", ASSIGN("z", Lit(8)))

Orderings ==
    {P_assign_x0, P_def_add, P_incr_x,
     P_lvalue_plain, P_lvalue_err, P_lvalue_bind,
     P_call_x, P_call_number, P_call_add_order, P_call_add_err, P_call_print_order,
     P_and_false, P_or_true, P_and_err, P_mul_zero, P_or_left_err}

NextOrderings ==
    /\ calls < MaxPasses
    /\ \E ast \in Orderings : Interpret(ast)

SpecOrderings == Init /\ [][NextOrderings]_vars

----------------------------------------------------------------------------
(* The operators as pure functions: one application of binop_chvalue to    *)
(* operands drawn from bounded sets.                                       *)

IntInputs == {INT(i) : i \in IntMin..IntMax}
FloatInputs == {FLOAT(n, 2) : n \in -4..4}
NumberInputs == {ChNumber(nt) : nt \in IntInputs \cup FloatInputs}
OtherInputs == {ChBool(TRUE), ChBool(FALSE), ChNone, ChString(""), ChString("ab"),
                RustFunc("len")}
ValueInputs == NumberInputs \cup OtherInputs
BinaryOps == {"ADD", "SUB", "MUL", "DIV", "POW", "LESS", "EQUAL", "NEQUAL",
              "LESSEQ", "GREATER", "GREATEREQ", "AND", "OR"}

ApplyBinop(left, op, right) ==
    /\ op_left' = left
    /\ op_name' = op
    /\ op_right' = right
    /\ op_result' = binop_chvalue(left, op, right)
    /\ UNCHANGED <<heap, calls, program, result, log, before, lastTop, trace, overflow_checks,
                   text, tokens, scanned,
                   parser_tokens, parsed>>

\* += and -=: in_de_crement applies add_equal / sub_equal to the two values
AssignOps == {"INCRMNT", "DECRMNT"}

ApplyInDecrement(left, op, right) ==
    /\ op_left' = left
    /\ op_name' = op
    /\ op_right' = right
    /\ op_result' = IF op = "INCRMNT" THEN add_equal(left, right) ELSE sub_equal(left, right)
    /\ UNCHANGED <<heap, calls, program, result, log, before, lastTop, trace, overflow_checks,
                   text, tokens, scanned,
                   parser_tokens, parsed>>

\* the unary operators Parser::factor and comp_expression produce
UnaryOps == {"SUB", "NOT", "ADD"}

ApplyUnryop(op, value) ==
    /\ op_left' = value
    /\ op_name' = "UNARY " \o op
    /\ op_right' = NoOperand
    /\ op_result' = unryop_chvalue(op, value)
    /\ UNCHANGED <<heap, calls, program, result, log, before, lastTop, trace, overflow_checks,
                   text, tokens, scanned,
                   parser_tokens, parsed>>

\* one application per behaviour
NextOps ==
    /\ op_name = ""
    /\ \/ \E left \in ValueInputs, op \in BinaryOps, right \in ValueInputs :
             ApplyBinop(left, op, right)
       \/ \E left \in ValueInputs, op \in AssignOps, right \in ValueInputs :
             ApplyInDecrement(left, op, right)
       \/ \E op \in UnaryOps, value \in ValueInputs : ApplyUnryop(op, value)

SpecOps == Init /\ [][NextOps]_vars

----------------------------------------------------------------------------
(* The Lexer.  A text is a sequence of one-character strings (the bytes of *)
(* the source); Option<char> is a sequence of length 0 or 1.               *)

DIGITS == {"0", "1", "2", "3", "4", "5", "6", "7", "8", "9"}
LETTERS ==
    {"a", "b", "c", "d", "e", "f", "g", "h", "i", "j", "k", "l", "m",
     "n", "o", "p", "q", "r", "s", "t", "u", "v", "w", "x", "y", "z",
     "A", "B", "C", "D", "E", "F", "G", "H", "I", "J", "K", "L", "M",
     "N", "O", "P", "Q", "R", "S", "T", "U", "V", "W", "X", "Y", "Z"}

Position(index, line, column) == [index |-> index, line |-> line, column |-> column]

\* Position::advance
Position_advance(pos, current_char) ==
    IF current_char = <<"\n">>
    THEN Position(pos.index + 1, pos.line + 1, 0)
    ELSE Position(pos.index + 1, pos.line, pos.column + 1)

\* get_keyword
get_keyword(s) ==
    CASE s = "&&" -> <<"AND">>
      [] s = "||" -> <<"OR">>
      [] s = "!" -> <<"NOT">>
      [] s = "if" -> <<"IF">>
      [] s = "elif" -> <<"ELIF">>
      [] s = "else" -> <<"ELSE">>
      [] s = "while" -> <<"WHILE">>
      [] s = "for" -> <<"FOR">>
      [] s = "fn" -> <<"FUNC">>
      [] OTHER -> <<>>

\* TokenType: the variant, with the payload of INT / FLOAT (value), of
\* STRING / ID (string) and of KEYWRD (keyword)
NoNumber == [k |-> "NONE"]
TokenType(tt) == [tt |-> tt, value |-> NoNumber, string |-> "", keyword |-> ""]
TokenType_NUMBER(nt) == [tt |-> nt.k, value |-> nt, string |-> "", keyword |-> ""]
TokenType_STRING(s) == [tt |-> "STRING", value |-> NoNumber, string |-> s, keyword |-> ""]
TokenType_ID(s) == [tt |-> "ID", value |-> NoNumber, string |-> s, keyword |-> ""]
TokenType_KEYWRD(k) == [tt |-> "KEYWRD", value |-> NoNumber, string |-> "", keyword |-> k]

Token(token_type, start_pos, end_pos) ==
    [token_type |-> token_type, start_pos |-> start_pos, end_pos |-> end_pos]

\* Token::new: without an end position the token ends one column further
Token_new(token_type, start_pos, end_pos) ==
    IF Len(end_pos) = 1 THEN Token(token_type, start_pos, end_pos[1])
    ELSE Token(token_type, start_pos, Position_advance(start_pos, <<>>))

\* Error::new for the errors of the Lexer
LexError(start_pos, end_pos, msg, found) ==
    [k |-> "Err", e |-> "IllegalChar", msg |-> msg, info |-> <<found>>,
     start_pos |-> start_pos, end_pos |-> end_pos]

\* Lexer::new: indexing the first byte of an empty text panics
Lexer_new(t) ==
    IF Len(t) = 0 THEN Panic("index out of bounds")
    ELSE Ok([text |-> t, position |-> Position(0, 0, 0), current_char |-> <<t[1]>>])

\* Lexer::advance
Lexer_advance(l) ==
    LET pos == Position_advance(l.position, l.current_char)
    IN [l EXCEPT !.position = pos,
                 !.current_char = IF pos.index < Len(l.text)
                                  THEN <<l.text[pos.index + 1]>> ELSE <<>>]

\* the result of a make_* method: the token or failure, and the Lexer after
Made(r, l) == [r |-> r, l |-> l]

\* the loop of make_string
RECURSIVE make_string_loop(_, _)
make_string_loop(l, s) ==
    IF Len(l.current_char) = 1 /\ l.current_char[1] \notin {"\"", "'"}
    THEN make_string_loop(Lexer_advance(l), s \o l.current_char[1])
    ELSE [l |-> l, s |-> s]

\* Lexer::make_string
make_string(l) ==
    LET w == make_string_loop(Lexer_advance(l), "")
        l2 == Lexer_advance(w.l)
    IN Made(Ok(Token(TokenType_STRING(w.s), l.position, l2.position)), l2)

\* Lexer::make_add and make_sub: plain is ADD / SUB, compound INCRMNT / DECRMNT
make_add_sub(l, plain, compound) ==
    LET l1 == Lexer_advance(l)
    IN IF Len(l1.current_char) = 0
       THEN Made(Panic("called Option::unwrap() on a None value"), l1)
       ELSE IF l1.current_char[1] = "="
       THEN LET l2 == Lexer_advance(l1)
            IN Made(Ok(Token_new(TokenType(compound), l.position, <<l2.position>>)), l2)
       ELSE Made(Ok(Token_new(TokenType(plain), l.position, <<>>)), l1)

make_add(l) == make_add_sub(l, "ADD", "INCRMNT")
make_sub(l) == make_add_sub(l, "SUB", "DECRMNT")

\* Lexer::make_keyword
make_keyword(l) ==
    LET l1 == Lexer_advance(l)
        keyword == IF Len(l1.current_char) = 1
                   THEN l.current_char[1] \o l1.current_char[1]
                   ELSE l.current_char[1]
        l2 == Lexer_advance(l1)
        k == get_keyword(keyword)
    IN IF Len(k) = 1
       THEN Made(Ok(Token_new(TokenType_KEYWRD(k[1]), l.position, <<l2.position>>)), l2)
       ELSE Made(LexError(l.position, l2.position, "Lexer: Unknown Keyword", keyword), l2)

\* make_not, make_equal, make_less, make_greater: one character, or two when
\* the next one is =
make_one_or_two(l, one, two) ==
    LET l1 == Lexer_advance(l)
    IN IF Len(l1.current_char) = 1 /\ l1.current_char[1] = "="
       THEN LET l2 == Lexer_advance(l1)
            IN Made(Ok(Token_new(two, l.position, <<l2.position>>)), l2)
       ELSE Made(Ok(Token_new(one, l.position, <<l1.position>>)), l1)

make_not(l) == make_one_or_two(l, TokenType_KEYWRD("NOT"), TokenType("NEQUAL"))
make_equal(l) == make_one_or_two(l, TokenType("ASSIGN"), TokenType("EQUAL"))
make_less(l) == make_one_or_two(l, TokenType("LESS"), TokenType("LESSEQ"))
make_greater(l) == make_one_or_two(l, TokenType("GREATER"), TokenType("GREATEREQ"))

\* the loop of make_identifier
RECURSIVE make_identifier_loop(_, _)
make_identifier_loop(l, id) ==
    IF Len(l.current_char) = 1 /\ l.current_char[1] \in LETTERS \cup {"_"}
    THEN make_identifier_loop(Lexer_advance(l), id \o l.current_char[1])
    ELSE [l |-> l, id |-> id]

\* Lexer::make_identifier
make_identifier(l) ==
    LET w == make_identifier_loop(l, "")
        k == get_keyword(w.id)
        token_type == IF Len(k) = 1 THEN TokenType_KEYWRD(k[1]) ELSE TokenType_ID(w.id)
    IN Made(Ok(Token_new(token_type, l.position, <<w.l.position>>)), w.l)

\* the loop of make_number: the digits before and after the dot
RECURSIVE make_number_loop(_, _, _, _)
make_number_loop(l, dot_count, whole, frac) ==
    IF Len(l.current_char) = 1 /\ l.current_char[1] \in DIGITS \cup {"."}
    THEN IF l.current_char[1] = "."
         THEN IF dot_count >= 1
              THEN [l |-> l, dot_count |-> dot_count, whole |-> whole, frac |-> frac]
              ELSE make_number_loop(Lexer_advance(l), dot_count + 1, whole, frac)
         ELSE IF dot_count = 0
              THEN make_number_loop(Lexer_advance(l), dot_count,
                                    Append(whole, l.current_char[1]), frac)
              ELSE make_number_loop(Lexer_advance(l), dot_count,
                                    whole, Append(frac, l.current_char[1]))
    ELSE [l |-> l, dot_count |-> dot_count, whole |-> whole, frac |-> frac]

DigitValue(c) == CHOOSE i \in 0..9 : Digit(i) = c

\* the value of a sequence of digits, -1 once it exceeds limit
RECURSIVE DigitsValue(_, _, _)
DigitsValue(digits, acc, limit) ==
    IF acc < 0 \/ Len(digits) = 0 THEN acc
    ELSE LET v == 10 * acc + DigitValue(Head(digits))
         IN DigitsValue(Tail(digits), IF v > limit THEN -1 ELSE v, limit)

RECURSIVE Pow10(_)
Pow10(n) == IF n = 0 THEN 1 ELSE 10 * Pow10(n - 1)

\* str::parse::<ChInt>().unwrap(): a literal beyond the range of ChInt panics
ParseInt(digits) ==
    LET v == DigitsValue(digits, 0, IntMax)
    IN IF v < 0 THEN Panic("called Result::unwrap() on an Err value") ELSE Ok(INT(v))

\* str::parse::<ChFloat>().unwrap()
ParseFloat(whole, frac) ==
    LET v == DigitsValue(whole \o frac, 0, FloatLimit)
    IN IF v < 0 \/ Len(frac) > 4 THEN Ok(FloatOther) ELSE Ok(FLOAT(v, Pow10(Len(frac))))

\* Lexer::make_number
make_number(l) ==
    LET w == make_number_loop(l, 0, <<>>, <<>>)
        num == IF w.dot_count = 0 THEN ParseInt(w.whole) ELSE ParseFloat(w.whole, w.frac)
    IN IF num.k # "Ok" THEN Made(num, w.l)
       ELSE Made(Ok(Token_new(TokenType_NUMBER(num.v), l.position, <<w.l.position>>)), w.l)

\* the characters parse_tokens turns into a token of their own
Punctuation(c) ==
    CASE c = "/" -> "DIV"
      [] c = "*" -> "MUL"
      [] c = "^" -> "POW"
      [] c = "(" -> "LROUND"
      [] c = ")" -> "RROUND"
      [] c = "{" -> "LCURLY"
      [] c = "}" -> "RCURLY"
      [] c = "," -> "COMMA"
      [] c = ";" -> "SEMICLN"

\* the last branch of parse_tokens, as if the error ended where it starts
illegal_char_EmptySpan(l) ==
    Made(LexError(l.position, l.position, "Lexer: found", l.current_char[1]),
         Lexer_advance(l))

\* the last branch of parse_tokens: IllegalChar for a character that starts
\* no token
illegal_char(l) ==
    LET l1 == Lexer_advance(l)
    IN Made(LexError(l.position, l1.position, "Lexer: found", l.current_char[1]), l1)

\* one pass of the loop of parse_tokens on a character that is not white space
scan_token(l) ==
    LET c == l.current_char[1]
    IN CASE c = "+" -> make_add(l)
         [] c = "-" -> make_sub(l)
         [] c \in {"/", "*", "^", "(", ")", "{", "}", ",", ";"} ->
               Made(Ok(Token_new(TokenType(Punctuation(c)), l.position, <<>>)),
                    Lexer_advance(l))
         [] c \in {"\"", "'"} -> make_string(l)
         [] c = "=" -> make_equal(l)
         [] c = "!" -> make_not(l)
         [] c = "<" -> make_less(l)
         [] c = ">" -> make_greater(l)
         [] c \in {"&", "|"} -> make_keyword(l)
         [] c \in LETTERS -> make_identifier(l)
         [] c \in DIGITS -> make_number(l)
         [] OTHER -> illegal_char(l)

\* the loop of Lexer::parse_tokens: [r |-> Ok(tokens) or the failure,
\* pushed |-> the tokens pushed so far]
RECURSIVE parse_tokens_loop(_, _)
parse_tokens_loop(l, acc) ==
    IF Len(l.current_char) = 0
    THEN LET all == Append(acc, Token_new(TokenType("EOF"), l.position, <<>>))
         IN [r |-> Ok(all), pushed |-> all]
    ELSE IF l.current_char[1] \in {" ", "\t", "\n"}
    THEN parse_tokens_loop(Lexer_advance(l), acc)
    ELSE LET m == scan_token(l)
         IN IF m.r.k # "Ok" THEN [r |-> m.r, pushed |-> acc]
            ELSE parse_tokens_loop(m.l, Append(acc, m.r.v))

\* Lexer::new followed by Lexer::parse_tokens, as Compiler::interpret calls them
parse_tokens(t) ==
    LET l == Lexer_new(t)
    IN IF l.k # "Ok" THEN [r |-> l, pushed |-> <<>>]
       ELSE parse_tokens_loop(l.v, <<>>)

\* longest text handed to the Lexer
MaxLen == 4

\* the characters of those texts
Alphabet == {"i", "f", "_", "1", ".", "+", "&", "\n", "#", "'"}

RECURSIVE TextsOfLen(_)
TextsOfLen(n) ==
    IF n = 0 THEN {<<>>}
    ELSE {Append(t, c) : t \in TextsOfLen(n - 1), c \in Alphabet}

\* the texts of at most n characters
TextsUpTo(n) == UNION {TextsOfLen(m) : m \in 0..n}

InitLex == Init /\ ~overflow_checks

Tokenize(t) ==
    /\ text' = t
    /\ LET out == parse_tokens(t)
       IN /\ tokens' = out.r
          /\ scanned' = out.pushed
    /\ UNCHANGED <<heap, calls, program, result, log, before, lastTop, trace,
                   overflow_checks, op_left, op_name, op_right, op_result,
                   parser_tokens, parsed>>

NextLex ==
    /\ tokens = NoResult
    /\ \E t \in TextsUpTo(MaxLen) : Tokenize(t)

SpecLex == InitLex /\ [][NextLex]_vars

----------------------------------------------------------------------------
(* The Parser.  A Parser is [tokens, token_index, current_token]; every    *)
(* parsing method takes it and returns [r |-> Ok(node) or error, p |-> the *)
(* Parser after].  A node keeps of its token what visit_node reads: the    *)
(* operator's name, the literal's value, the identifier's string.          *)

Parsed(r, p) == [r |-> r, p |-> p]

\* the `?` of the parsing methods: an error is returned as it is
Try(out, F(_, _)) == IF out.r.k # "Ok" THEN out ELSE F(out.r.v, out.p)

\* Error::new for the errors of the Parser
SyntaxError(msg) == Err("InvalidSyntax", msg, <<>>)

\* the name an operator token has in a BINOP or UNRYOP node
Operator(t) == IF t.token_type.tt = "KEYWRD" THEN t.token_type.keyword ELSE t.token_type.tt

\* Parser::new
Parser_new(toks) == [tokens |-> toks, token_index |-> 0, current_token |-> toks[1]]

\* Parser::advance: the current token stays when the index leaves the tokens
Parser_advance(p) ==
    [p EXCEPT !.token_index = @ + 1,
              !.current_token = IF p.token_index + 1 < Len(p.tokens)
                                THEN p.tokens[p.token_index + 2] ELSE @]

\* Parser::retreat
Parser_retreat(p) ==
    [p EXCEPT !.token_index = @ - 1, !.current_token = p.tokens[p.token_index]]

\* the type of the current token and, for a KEYWRD, its keyword
Current(p) == p.current_token.token_type.tt
CurrentKeyword(p) ==
    IF Current(p) = "KEYWRD" THEN p.current_token.token_type.keyword ELSE ""

RECURSIVE Parser_apply(_, _)
RECURSIVE Parser_atom(_)
RECURSIVE Parser_call(_)
RECURSIVE call_arguments(_, _, _)
RECURSIVE Parser_power(_)
RECURSIVE Parser_factor(_)
RECURSIVE binary_operation_loop(_, _, _, _, _)
RECURSIVE Parser_binary_operation(_, _, _, _, _)
RECURSIVE Parser_term(_)
RECURSIVE Parser_arith_expression(_)
RECURSIVE Parser_comp_expression(_)
RECURSIVE Parser_expression(_)

\* a call through a `fn(parser: &mut Parser) -> Result<Node, Error>` value
Parser_apply(func, p) ==
    CASE func = "call" -> Parser_call(p)
      [] func = "factor" -> Parser_factor(p)
      [] func = "term" -> Parser_term(p)
      [] func = "arith_expression" -> Parser_arith_expression(p)
      [] func = "comp_expression" -> Parser_comp_expression(p)

\* Parser::atom.  The if, while, for and fn expressions are not parsed here:
\* a token sequence that reaches one of them ends as a Statement
Parser_atom(p) ==
    LET t == p.current_token
        tt == Current(p)
    IN CASE tt \in {"INT", "FLOAT"} -> Parsed(Ok(NUM(t.token_type.value)), Parser_advance(p))
         [] tt = "STRING" -> Parsed(Ok(STRING_NODE(t.token_type.string)), Parser_advance(p))
         [] tt = "ID" -> Parsed(Ok(ACCESS(t.token_type.string)), Parser_advance(p))
         [] tt = "LROUND" ->
                Try(Parser_expression(Parser_advance(p)),
                    LAMBDA expr, q :
                        IF Current(q) = "RROUND" THEN Parsed(Ok(expr), Parser_advance(q))
                        ELSE Parsed(SyntaxError("Parser: expected ')' found"), q))
         [] CurrentKeyword(p) \in {"IF", "WHILE", "FOR", "FUNC"} ->
                Parsed([k |-> "Statement"], p)
         [] OTHER ->
                Parsed(SyntaxError("Parser: expected INT, FLOAT, IDENTIFIER, '+', '-' or '(, found:"), p)

\* the arguments of Parser::call after the first, up to the closing bracket
call_arguments(res, arg_nodes, p) ==
    IF Current(p) = "COMMA"
    THEN Try(Parser_expression(Parser_advance(p)),
             LAMBDA arg, q : call_arguments(res, Append(arg_nodes, arg), q))
    ELSE IF Current(p) # "RROUND"
    THEN Parsed(SyntaxError("Parser: expected RROUND found"), p)
    ELSE Parsed(Ok(CALL(res, arg_nodes)), Parser_advance(p))

\* Parser::call
Parser_call(p) ==
    Try(Parser_atom(p),
        LAMBDA res, q :
            IF Current(q) # "LROUND" THEN Parsed(Ok(res), q)
            ELSE IF Current(Parser_advance(q)) = "RROUND"
            THEN Parsed(Ok(CALL(res, <<>>)), Parser_advance(Parser_advance(q)))
            ELSE Try(Parser_expression(Parser_advance(q)),
                     LAMBDA arg, q2 : call_arguments(res, <<arg>>, q2)))

\* Parser::power
Parser_power(p) == Parser_binary_operation("call", {"POW"}, {}, "factor", p)

\* Parser::factor
Parser_factor(p) ==
    IF Current(p) \in {"SUB", "ADD"}
    THEN Try(Parser_factor(Parser_advance(p)),
             LAMBDA factor, q : Parsed(Ok(UNRYOP(Operator(p.current_token), factor)), q))
    ELSE Parser_power(p)

\* the while loop of Parser::binary_operation
binary_operation_loop(left_node, ops, keywords, func_b, p) ==
    IF Current(p) \in ops \/ CurrentKeyword(p) \in keywords
    THEN Try(Parser_apply(func_b, Parser_advance(p)),
             LAMBDA right_node, q :
                 binary_operation_loop(BINOP(left_node, Operator(p.current_token), right_node),
                                       ops, keywords, func_b, q))
    ELSE Parsed(Ok(left_node), p)

\* Parser::binary_operation
Parser_binary_operation(func_a, ops, keywords, func_b, p) ==
    Try(Parser_apply(func_a, p),
        LAMBDA left_node, q : binary_operation_loop(left_node, ops, keywords, func_b, q))

\* Parser::term with + and - in the place of * and /
Parser_term_AddTier(p) == Parser_binary_operation("factor", {"ADD", "SUB"}, {}, "factor", p)

\* Parser::term
Parser_term(p) == Parser_binary_operation("factor", {"MUL", "DIV"}, {}, "factor", p)

\* Parser::arith_expression
Parser_arith_expression(p) == Parser_binary_operation("term", {"ADD", "SUB"}, {}, "term", p)

\* Parser::comp_expression
Parser_comp_expression(p) ==
    IF CurrentKeyword(p) = "NOT"
    THEN Try(Parser_comp_expression(Parser_advance(p)),
             LAMBDA node, q : Parsed(Ok(UNRYOP("NOT", node)), q))
    ELSE Parser_binary_operation(
             "arith_expression",
             {"EQUAL", "INCRMNT", "DECRMNT", "NEQUAL", "LESS", "LESSEQ", "GREATER", "GREATEREQ"},
             {}, "arith_expression", p)

\* Parser::expression
Parser_expression(p) ==
    IF Current(p) = "ID" /\ Current(Parser_advance(p)) = "ASSIGN"
    THEN Try(Parser_expression(Parser_advance(Parser_advance(p))),
             LAMBDA value, q : Parsed(Ok(ASSIGN(p.current_token.token_type.string, value)), q))
    ELSE IF Current(p) = "ID"
    THEN Parser_binary_operation("comp_expression", {}, {"AND", "OR"}, "comp_expression",
                                 Parser_retreat(Parser_advance(p)))
    ELSE Parser_binary_operation("comp_expression", {}, {"AND", "OR"}, "comp_expression", p)

\* Parser::parse: an expression, then the end of the input
Parser_parse(p) ==
    Try(Parser_expression(p),
        LAMBDA nodes, q :
            IF Current(q) = "EOF" THEN Parsed(Ok(nodes), q)
            ELSE Parsed(SyntaxError("Parser: expected EOF found"), q)).r

\* most tokens before the end-of-input token
MaxTokens == 5

\* the kinds of token the sequences are made of: an integer literal, the
\* operators of the four tiers
TokenKinds == {"INT", "ADD", "SUB", "MUL", "DIV", "LESS", "AND", "OR"}

RECURSIVE KindsOfLen(_)
KindsOfLen(n) ==
    IF n = 0 THEN {<<>>}
    ELSE {Append(ks, k) : ks \in KindsOfLen(n - 1), k \in TokenKinds}

\* the i-th token of a line of one-character tokens; the integer literal at
\* place i is the literal i
TokenAt(kind, i) ==
    Token(CASE kind = "INT" -> TokenType_NUMBER(INT(i))
            [] kind \in {"AND", "OR"} -> TokenType_KEYWRD(kind)
            [] OTHER -> TokenType(kind),
          Position(i - 1, 0, i - 1), Position(i, 0, i))

\* the tokens of a sequence of kinds, the end-of-input token after them
TokensOf(kinds) ==
    [i \in 1..(Len(kinds) + 1) |->
        IF i <= Len(kinds) THEN TokenAt(kinds[i], i) ELSE TokenAt("EOF", i)]

InitParse == Init /\ ~overflow_checks

\* Parser::new and Parser::parse, as Compiler::interpret calls them
Parse(toks) ==
    /\ parser_tokens' = toks
    /\ parsed' = Parser_parse(Parser_new(toks))
    /\ UNCHANGED <<heap, calls, program, result, log, before, lastTop, trace,
                   overflow_checks, op_left, op_name, op_right, op_result,
                   text, tokens, scanned>>

\* most operators of a chain of integer literals
MaxOperators == 3

\* the chain operand, operator, operand, ... of the operators given
Chain(ops) ==
    [i \in 1..(2 * Len(ops) + 1) |-> IF i % 2 = 1 THEN "INT" ELSE ops[i \div 2]]

\* the sequences parsed: every sequence of at most MaxTokens tokens, and the
\* longer chains of MaxOperators operators
NextParse ==
    /\ parsed = NoResult
    /\ \/ \E n \in 0..MaxTokens : \E kinds \in KindsOfLen(n) : Parse(TokensOf(kinds))
       \/ \E ops \in [1..MaxOperators -> TokenKinds \ {"INT"}] : Parse(TokensOf(Chain(ops)))

SpecParse == InitParse /\ [][NextParse]_vars

----------------------------------------------------------------------------
(* Properties of interpret.  log, before and lastTop are the history of the *)
(* last interpret call.                                                     *)

\* the positions of the events of one kind in the log
Events(ev) == {i \in 1..Len(log) : log[i].ev = ev}

\* the symbol table of the global Context of heap h
RootTable(h) == h[RootContext].symbol_table.table

\* heap h binds, in the global Context, the name of the top-level definition
\* def to the function that definition yields
DefinedAtRoot(h, def) ==
    /\ def.name[1] \in DOMAIN RootTable(h)
    /\ RootTable(h)[def.name[1]] =
           ChronosFunc(def.name[1], def.args, def.body, RootContext)

\* C1: lexical scoping.  Whenever a user-defined function is called, the
\* parent of the call's new environment is the environment the function was
\* defined in, not the caller's; so with x bound at top level and
\* fn g() { x }, fn h(x) { g() } defined there, h(2) yields the top-level x.
C1_LexicalScoping ==
    /\ \A i \in Events("call") : log[i].parent = log[i].defined_in
    /\ (/\ program = P_call_h
        /\ DefinedAtRoot(before, P_def_g)
        /\ DefinedAtRoot(before, P_def_h)
        /\ "x" \in DOMAIN RootTable(before))
       => result = Ok(RootTable(before)["x"])

\* C2: closure capture.  With fn make(a) { fn (b) { a + b } } defined at top
\* level, calling the value make(1) returns with argument 2 yields Int 3.
C2_ClosureCapture ==
    (program = P_call_make /\ DefinedAtRoot(before, P_def_make))
        => result = Ok(ChNumber(INT(3)))

\* the successful bindings of events made in Context c, applied in order to table
RECURSIVE ReplayBinds(_, _, _, _)
ReplayBinds(table, events, c, i) ==
    IF i > Len(events) THEN table
    ELSE ReplayBinds(IF events[i].ev = "bind" /\ events[i].env = c /\ events[i].ok
                     THEN (events[i].name :> events[i].val) @@ table
                     ELSE table,
                     events, c, i + 1)

\* the table Context c had when the last interpret call started
TableBefore(c) ==
    IF c <= Len(before) THEN before[c].symbol_table.table ELSE <<>>

\* C3: binding never walks to the parent.  After an interpret call the symbol
\* table of every environment is the table it had before the call, changed by
\* exactly the bindings (assignment, += / -=, named definition, parameter)
\* evaluated in that very environment: a binding made in E changes no
\* ancestor of E.
C3_BindingIsLocal ==
    \A c \in 1..Len(heap) :
        heap[c].symbol_table.table = ReplayBinds(TableBefore(c), log, c, 1)

\* a binding made in a child environment of a name the global environment
\* binds to another value, the global binding being as before
C3_Witness ==
    \E i \in Events("bind") :
        /\ log[i].ok
        /\ log[i].env # RootContext
        /\ log[i].name \in DOMAIN RootTable(before)
        /\ RootTable(before)[log[i].name] # log[i].val
        /\ RootTable(heap)[log[i].name] = RootTable(before)[log[i].name]

ConstViolation(name) == Err("Runtime", "cannot assign to const", <<name>>)

\* C4 as claimed: every assignment whose target is one of true, false, none,
\* print, len makes the interpret call return the Runtime const-violation
\* error and leaves the name's seeded value intact.
C4_ConstRebindingFails ==
    \A i \in Events("assign") :
        log[i].name \in Builtins =>
            /\ result = ConstViolation(log[i].name)
            /\ RootTable(heap)[log[i].name] = BuiltinValue(log[i].name)

\* C4 as amended: an assignment evaluated in the root environment whose
\* target is one of true, false, none, print, len and whose right-hand side
\* has evaluated to a value binds nothing, ends the interpret call with the
\* Runtime const-violation error and leaves the name's seeded value intact.
C4_RootConstRebindingFails ==
    \A i \in Events("bind") :
        (log[i].how = "assign" /\ log[i].env = RootContext /\ log[i].name \in Builtins)
            => /\ ~log[i].ok
               /\ i = Len(log)
               /\ result = ConstViolation(log[i].name)
               /\ RootTable(heap)[log[i].name] = BuiltinValue(log[i].name)

\* a top-level assignment to a seeded name has been refused
C4_Witness ==
    /\ program.type = "ASSIGN"
    /\ program.id \in Builtins
    /\ \E i \in Events("bind") : log[i].how = "assign" /\ log[i].env = RootContext
    /\ result = ConstViolation(program.id)

\* C5: after any sequence of interpret calls the root environment still binds
\* true, false, none, print and len to their initial values and still marks
\* them immutable.
C5_RootBuiltinsIntact ==
    \A name \in Builtins :
        /\ name \in DOMAIN RootTable(heap)
        /\ RootTable(heap)[name] = BuiltinValue(name)
        /\ name \in heap[RootContext].symbol_table.immutable

\* a successful interpret call has evaluated, at top level, a named function
\* definition or a += whose target is a seeded name
C5_Witness ==
    /\ result.k = "Ok"
    /\ \E i \in Events("bind") :
          /\ log[i].env = RootContext
          /\ log[i].name \in Builtins
          /\ log[i].how \in {"funcdef", "incr"}

\* C6: top-level bindings persist.  An interpret call that is a variable
\* access to a name bound at top level by an earlier call returns the value of
\* the latest such binding, and after every call the root environment holds
\* the latest top-level binding of every name.
C6_TopLevelBindingsPersist ==
    [][/\ (program'.type = "ACCESS" /\ program'.id \in DOMAIN lastTop)
              => result' = Ok(lastTop[program'.id])
       /\ \A name \in DOMAIN lastTop' : /\ name \in DOMAIN RootTable(heap')
                                        /\ RootTable(heap')[name] = lastTop'[name]]_vars

\* x is read back at least two calls after it was bound
C6_Witness ==
    /\ program = P_access_x
    /\ calls >= 3
    /\ "x" \in DOMAIN lastTop
    /\ result = Ok(lastTop["x"])
    /\ ~(\E i \in Events("bind") : TRUE)

\* C7: exact arity.  A call of a user-defined function with p parameters and
\* k arguments, k # p, ends the interpret call with the Runtime error naming
\* p, k and the function, and its body is never evaluated; with k = p the
\* i-th parameter is bound to the i-th argument in the call's new environment,
\* and the body starts with exactly these bindings in it.
C7_ExactArity ==
    \A i \in Events("call") :
        LET e == log[i]
        IN IF e.k # e.p
           THEN /\ i = Len(log)
                /\ result = Err("Runtime", "expected arguments, found",
                                <<e.p, e.k, e.name>>)
                /\ \A j \in Events("body") : log[j].env # e.env
           ELSE /\ \A j \in 1..e.p :
                     /\ i + j <= Len(log)
                     /\ log[i + j].ev = "bind"
                     /\ log[i + j].how = "param"
                     /\ log[i + j].ok
                     /\ log[i + j].env = e.env
                     /\ log[i + j].name = e.params[j]
                     /\ log[i + j].val = e.args[j]
                /\ IF i + e.p < Len(log)
                   THEN LET b == log[i + e.p + 1]
                        IN /\ b.ev = "body"
                           /\ b.env = e.env
                           /\ DOMAIN b.table = {e.params[j] : j \in 1..e.p}
                           /\ \A j \in 1..e.p : b.table[e.params[j]] = e.args[j]
                   ELSE result = Diverge

\* a call with too many arguments has been refused
C7_Witness ==
    \E i \in Events("call") :
        /\ log[i].k > log[i].p
        /\ result = Err("Runtime", "expected arguments, found",
                        <<log[i].p, log[i].k, log[i].name>>)

\* C8: named recursion.  With fn f(n) { if n < 1 { 0 } else { n + f(n-1) } }
\* defined at top level, f(n) for n in 0..MaxN returns Int n*(n+1)/2 after
\* n + 1 calls of f.
C8_NamedRecursion ==
    \A n \in 0..MaxN :
        (program = P_call_f(n) /\ DefinedAtRoot(before, P_def_f))
            => /\ result = Ok(ChNumber(INT((n * (n + 1)) \div 2)))
               /\ Cardinality(Events("call")) = n + 1
               /\ \A i \in Events("call") : log[i].name = "f"

\* f(MaxN) has returned from MaxN + 1 nested calls
C8_Witness ==
    /\ program = P_call_f(MaxN)
    /\ DefinedAtRoot(before, P_def_f)
    /\ Cardinality(Events("call")) = MaxN + 1
    /\ result.k = "Ok"

----------------------------------------------------------------------------
(* Properties of the operators *)

\* the quotient of two NumberTypes: truncated for two INTs, exact otherwise
Quotient(l, r) ==
    IF l.k = "INT" /\ r.k = "INT" THEN INT(TruncDiv(l.n, r.n))
    ELSE FLOAT(l.n * r.d, l.d * r.n)

\* C9: division.  For a Number left operand and a Number right operand, /
\* fails with Runtime "Division by 0" when the right operand is Int 0 or
\* Float 0.0, and returns the quotient otherwise.
C9_DivisionByZero ==
    (op_name = "DIV" /\ op_left.t = "NUMBER" /\ op_right.t = "NUMBER")
        => IF op_right.value.n = 0
           THEN op_result = Err("Runtime", "Division by 0", <<>>)
           ELSE op_result = Ok(ChNumber(Quotient(op_left.value, op_right.value)))

\* C10: pow by zero.  For every Number base, ^ with the exponent Int 0
\* returns a Number holding Int 0.
C10_PowByZero ==
    (op_name = "POW" /\ op_left.t = "NUMBER" /\ op_right = ChNumber(INT(0)))
        => op_result = Ok(ChNumber(INT(0)))

\* a Float base raised to Int 0
C10_Witness ==
    /\ op_name = "POW"
    /\ op_left = ChNumber(FLOAT(3, 2))
    /\ op_right = ChNumber(INT(0))
    /\ op_result = Ok(ChNumber(INT(0)))

----------------------------------------------------------------------------
(* Properties of branching and failing evaluations *)

\* C11: function names are mutable bindings.  A top-level named definition
\* of a name the root environment already binds to a user-defined function
\* returns the new function and rebinds the name to it, and a later call r()
\* returns the value of the body of the latest definition of r.
C11_FunctionRedefinition ==
    /\ (/\ program.type = "FUNCDEF"
        /\ program.name[1] \in DOMAIN RootTable(before)
        /\ IsChronFunc(RootTable(before)[program.name[1]]))
       => /\ result.k = "Ok"
          /\ result.v.body = program.body
          /\ DefinedAtRoot(heap, program)
    /\ (program = P_call_r /\ "r" \in DOMAIN lastTop)
       => result = Ok(ChNumber(lastTop["r"].body.value))

\* r, defined with body 1, has been redefined with body 2
C11_Witness ==
    /\ program = P_def_r2
    /\ DefinedAtRoot(before, P_def_r1)
    /\ DefinedAtRoot(heap, P_def_r2)

\* the steps of the trace at which a node's evaluation ended with an error
ErrorExits == {i \in 1..Len(trace) : trace[i].ev = "exit" /\ trace[i].r.k = "Err"}

\* C13: first error aborts.  Once the evaluation of a node has ended with an
\* error, no node is entered and no binding is made any more: every later
\* step is an enclosing node ending with the same error, and interpret
\* returns that error.
C13_FirstErrorAborts ==
    \A i \in ErrorExits :
        /\ \A j \in (i + 1)..Len(trace) :
              trace[j].ev = "exit" /\ trace[j].r = trace[i].r
        /\ result = trace[i].r

\* print(u, x = 5) has failed on u without evaluating x = 5
C13_Witness ==
    /\ program = P_err_arg
    /\ result = Err("Runtime", "is not defined", <<"u">>)
    /\ ErrorExits # {}
    /\ \A j \in 1..Len(trace) : trace[j].ev # "bind"

\* a step entering, and one leaving, a child of the top-level node
IsChildEnter(step) == step.ev = "enter" /\ step.depth = 2
IsChildExit(step) == step.ev = "exit" /\ step.depth = 2

\* the children of the top-level node in the order they were entered, each
\* with the Context it was evaluated in and the value it ended with
Children ==
    LET entered == SelectSeq(trace, IsChildEnter)
        left == SelectSeq(trace, IsChildExit)
    IN [m \in 1..Len(entered) |->
           [node |-> entered[m].node, env |-> entered[m].env, r |-> left[m].r]]

\* the names whose binding in the global Context differs from before
RootChanged ==
    {name \in DOMAIN RootTable(heap) :
        name \notin DOMAIN RootTable(before)
          \/ RootTable(before)[name] # RootTable(heap)[name]}

\* C18: conditional ordering.  A top-level if / elif / else evaluates, in the
\* enclosing environment, its conditions in declaration order up to the first
\* one that is truthy or fails; after a truthy condition exactly that case's
\* body is evaluated and its value returned; after all conditions were falsy
\* the else body is evaluated and its value returned, or None when there is
\* none; no other condition or body is entered, and only names assigned by a
\* node that was entered have changed.
C18_ConditionalOrdering ==
    program.type = "IF" =>
        LET cases == program.cases
            kids == Children
            n == Len(kids)
        IN /\ \E k \in 1..Len(cases) :
                 /\ n >= k
                 /\ \A m \in 1..k : /\ kids[m].node = cases[m][1]
                                    /\ kids[m].env = RootContext
                 /\ \A m \in 1..(k - 1) :
                       kids[m].r.k = "Ok" /\ ~is_true(kids[m].r.v)
                 /\ IF kids[k].r.k # "Ok"
                    THEN n = k /\ result = kids[k].r
                    ELSE IF is_true(kids[k].r.v)
                    THEN /\ n = k + 1
                         /\ kids[k + 1].node = cases[k][2]
                         /\ result = kids[k + 1].r
                    ELSE /\ k = Len(cases)
                         /\ IF Len(program.else_case) = 1
                            THEN /\ n = k + 1
                                 /\ kids[k + 1].node = program.else_case[1]
                                 /\ result = kids[k + 1].r
                            ELSE n = k /\ result = Ok(ChNone)
           /\ \A name \in RootChanged :
                 \E i \in 1..Len(trace) :
                     /\ trace[i].ev = "enter"
                     /\ trace[i].node.type = "ASSIGN"
                     /\ trace[i].node.id = name

\* the second case of if x < 1 {..} elif x < 2 {..} elif (t = x) < 3 {..}
\* else {..} was taken: a is 2, and t, which the third condition would have
\* bound, is unbound
C18_Witness ==
    /\ program = P_if_else
    /\ result = Ok(ChNumber(INT(2)))
    /\ Len(Children) = 3
    /\ "t" \notin DOMAIN RootTable(heap)

\* the Contexts with display name name created by the last interpret call
NewContexts(name) ==
    {c \in (Len(before) + 1)..Len(heap) : heap[c].display_name = name}

\* the child a top-level for evaluates m-th: init if there is one, then
\* condition, body and step (if there is one) in turn
ForChild(m) ==
    LET q == (m - Len(program.c1) - 1) % (2 + Len(program.c3))
    IN IF m <= Len(program.c1) THEN program.c1[1]
       ELSE CASE q = 0 -> program.c2
              [] q = 1 -> program.body
              [] q = 2 -> program.c3[1]

\* C19: one scope per for-loop.  A top-level for creates exactly one Context,
\* a child of the enclosing one; init (once, first), then condition, body and
\* step in turn are all evaluated in it, as long as each ends without an error
\* and the condition is truthy; the loop returns None after a falsy condition
\* and then the enclosing Context is as before.  In
\* for i = 0; i < 2; i = j { j = i + 1 } the j bound by the body is read by
\* the step, and the i bound by the step by the next condition and body.
C19_OneScopePerFor ==
    program.type = "FOR" =>
        /\ Cardinality(NewContexts("<for>")) = 1
        /\ LET scope == CHOOSE c \in NewContexts("<for>") : TRUE
               kids == Children
               n == Len(kids)
           IN /\ heap[scope].parent = RootContext
              /\ n >= 1
              /\ \A m \in 1..n :
                    /\ kids[m].node = ForChild(m)
                    /\ kids[m].env = scope
              /\ \A m \in 1..(n - 1) :
                    /\ kids[m].r.k = "Ok"
                    /\ ForChild(m) = program.c2 => is_true(kids[m].r.v)
              /\ IF kids[n].r.k # "Ok" THEN result = kids[n].r
                 ELSE /\ ForChild(n) = program.c2
                      /\ ~is_true(kids[n].r.v)
                      /\ result = Ok(ChNone)
              /\ Len(program.c1) = 1 =>
                    Cardinality({m \in 1..n : kids[m].node = program.c1[1]}) = 1
              /\ result = Ok(ChNone) => heap[RootContext] = before[RootContext]
              /\ program = P_for_carry =>
                    /\ result = Ok(ChNone)
                    /\ n = 8
                    /\ heap[scope].symbol_table.table =
                          [name \in {"i", "j"} |-> ChNumber(INT(2))]

\* for ; x < 2; x += 1 { k = x } has run with x = 0 in the enclosing Context:
\* two passes, x is 2 in the loop's Context and still 0 in the enclosing one
C19_Witness ==
    /\ program = P_for_noinit
    /\ result = Ok(ChNone)
    /\ Len(Children) = 7
    /\ RootTable(heap)["x"] = ChNumber(INT(0))
    /\ \E c \in NewContexts("<for>") :
          heap[c].symbol_table.table = ("x" :> ChNumber(INT(2))) @@ ("k" :> ChNumber(INT(1)))

\* the child a top-level while evaluates m-th: condition and body in turn
WhileChild(m) == IF m % 2 = 1 THEN program.cond ELSE program.body

\* C20: the condition of a while is isolated from its body.  A top-level
\* while creates one Context, a child of the enclosing one; it evaluates its
\* condition in the enclosing Context and its body in the new one, in turn.
\* With a condition that binds nothing, the enclosing Context stays as it
\* was, whatever the body assigns, defines or calls, and every evaluation of
\* the condition yields the value of the first one; so a while whose first
\* condition is truthy returns no value: it is still running when the passes
\* run out, or it has ended with the failure of its body.
C20_WhileConditionIsolated ==
    program.type = "WHILE" =>
        /\ Cardinality(NewContexts("<while>")) = 1
        /\ LET scope == CHOOSE c \in NewContexts("<while>") : TRUE
               kids == Children
               n == Len(kids)
           IN /\ heap[scope].parent = RootContext
              /\ n >= 1
              /\ \A m \in 1..n :
                    /\ kids[m].node = WhileChild(m)
                    /\ kids[m].env = IF m % 2 = 1 THEN RootContext ELSE scope
              /\ heap[RootContext] = before[RootContext]
              /\ \A m \in 1..n : m % 2 = 1 => kids[m].r = kids[1].r
              /\ (kids[1].r.k = "Ok" /\ is_true(kids[1].r.v)) =>
                    /\ result.k # "Ok"
                    /\ \/ result.k = "Diverge" /\ n > 2
                       \/ result.k # "Diverge" /\ n % 2 = 0 /\ result = kids[n].r
              /\ (kids[1].r.k = "Ok" /\ ~is_true(kids[1].r.v)) =>
                    result = Ok(ChNone) /\ n = 1
              /\ kids[1].r.k # "Ok" => result = kids[1].r /\ n = 1

\* while x < 2 { x += 1 } has run with x = 0 in the enclosing Context: x has
\* passed 2 in the loop's Context, is still 0 in the enclosing one, and the
\* loop has not returned
C20_Witness ==
    /\ program = P_while_incr
    /\ result.k = "Diverge"
    /\ RootTable(heap)["x"] = ChNumber(INT(0))
    /\ \E c \in NewContexts("<while>") :
          /\ "x" \in DOMAIN heap[c].symbol_table.table
          /\ heap[c].symbol_table.table["x"].value.n > 2

\* the number of times a top-level loop has entered its body
BodyPasses == Len(SelectSeq(Children, LAMBDA kid : kid.node = program.body))

\* C21: the counting for-loop terminates.  for i = 0; i < n; i += 1 { k = i }
\* with 0 <= n evaluates its body exactly n times and returns None; i is then
\* n in the loop's Context, and the enclosing Context is as before, so it
\* binds i only if it did before.
C21_CountingForTerminates ==
    \A n \in 0..MaxN :
        program = P_for_count(n) =>
            /\ result = Ok(ChNone)
            /\ BodyPasses = n
            /\ heap[RootContext] = before[RootContext]
            /\ "i" \in DOMAIN RootTable(heap) <=> "i" \in DOMAIN RootTable(before)
            /\ \A c \in NewContexts("<for>") :
                  heap[c].symbol_table.table["i"] = ChNumber(INT(n))

\* the loop with the largest n has run while the enclosing Context bound i to 7
C21_Witness ==
    /\ program = P_for_count(MaxN)
    /\ result = Ok(ChNone)
    /\ BodyPasses = MaxN
    /\ "i" \in DOMAIN RootTable(heap)
    /\ RootTable(heap)["i"] = ChNumber(INT(7))

----------------------------------------------------------------------------
(* Further properties of the operators *)

ArithmeticOps == {"ADD", "SUB", "MUL", "DIV", "POW", "INCRMNT", "DECRMNT", "UNARY SUB"}
OrderingOps == {"LESS", "LESSEQ", "GREATER", "GREATEREQ"}
EqualityOps == {"EQUAL", "NEQUAL"}
LogicalOps == {"AND", "OR", "UNARY NOT"}
TraitOps == ArithmeticOps \cup OrderingOps \cup EqualityOps \cup LogicalOps

\* C12: default operator failure.  Every arithmetic, relational and logical
\* operator on a Function, every operator except + and += on a String, every
\* operator except == and != on None, and every arithmetic or ordering
\* operator on a Bool returns an UndefinedOperator error, whatever the right
\* operand.
C12_DefaultOperatorFails ==
    (\/ op_left.t = "FUNCTION" /\ op_name \in TraitOps
     \/ op_left.t = "STRING" /\ op_name \in TraitOps \ {"ADD", "INCRMNT"}
     \/ op_left.t = "NONE" /\ op_name \in TraitOps \ EqualityOps
     \/ op_left.t = "BOOL" /\ op_name \in ArithmeticOps \cup OrderingOps)
        => op_result.k = "Err" /\ op_result.e = "UndefinedOperator"

\* -= on a String, with a String on the right
C12_Witness ==
    /\ op_name = "DECRMNT"
    /\ op_left = ChString("ab")
    /\ op_right = ChString("")
    /\ op_result.k = "Err"
    /\ op_result.e = "UndefinedOperator"

\* C14: unconvertible operand.  An arithmetic or ordering operator or && / ||
\* with a Number on the left and a String, a Function or None on the right
\* returns a Runtime error.
C14_UnconvertibleOperand ==
    (/\ op_left.t = "NUMBER"
     /\ op_name \in {"ADD", "SUB", "MUL", "DIV", "POW", "AND", "OR"} \cup OrderingOps
     /\ op_right.t \in {"STRING", "FUNCTION", "NONE"})
        => op_result.k = "Err" /\ op_result.e = "Runtime"

----------------------------------------------------------------------------
(* Properties of the Lexer.                                                *)

\* the characters on which parse_tokens starts a token or skips white space
TokenStarts ==
    {" ", "\t", "\n", "+", "-", "/", "*", "^", "(", ")", "{", "}", ",", ";",
     "\"", "'", "=", "!", "<", ">", "&", "|"} \cup LETTERS \cup DIGITS

\* the 0-based indices of the line feeds of t before index i
LineFeedsBefore(t, i) == {j \in 0..(i - 1) : t[j + 1] = "\n"}

\* line and column of the character at 0-based index i of t, counted from the
\* text itself
PositionAt(t, i) ==
    LET lf == LineFeedsBefore(t, i)
        last == IF lf = {} THEN -1 ELSE CHOOSE j \in lf : \A h \in lf : h <= j
    IN Position(i, Cardinality(lf), i - (last + 1))

FoundIllegalChar == tokens.k = "Err" /\ tokens.msg = "Lexer: found"

\* C15: a failure on a character that starts no token is IllegalChar, names
\* that character, starts at the character's position (index, line and column
\* as counted from the text) and ends one character further on the same line,
\* and no token sequence is returned; and a text that is tokenized has such
\* characters only strictly inside a token (the tail of an identifier, of a
\* number or of a string)
C15_IllegalCharSpan ==
    /\ FoundIllegalChar =>
          \E i \in 0..(Len(text) - 1) :
              /\ text[i + 1] \notin TokenStarts
              /\ tokens.e = "IllegalChar"
              /\ tokens.info = <<text[i + 1]>>
              /\ tokens.start_pos = PositionAt(text, i)
              /\ tokens.end_pos = Position(i + 1, tokens.start_pos.line,
                                           tokens.start_pos.column + 1)
              /\ \A n \in 1..Len(scanned) : scanned[n].end_pos.index <= i
    /\ tokens.k = "Ok" =>
          \A i \in 0..(Len(text) - 1) :
              text[i + 1] \notin TokenStarts =>
                  \E n \in 1..Len(tokens.v) :
                      /\ tokens.v[n].start_pos.index < i
                      /\ i < tokens.v[n].end_pos.index

C15_Witness ==
    /\ FoundIllegalChar
    /\ tokens.start_pos = Position(2, 1, 1)
    /\ tokens.end_pos = Position(3, 1, 2)
    /\ Len(scanned) = 1

\* the characters of an identifier
IdentifierChars == LETTERS \cup {"_"}

\* the maximal runs of identifier characters of t, as pairs of 0-based
\* indices: first character, and one past the last
IdentifierRuns(t) ==
    {<<a, b>> \in (0..Len(t)) \X (0..Len(t)) :
        /\ a < b
        /\ \A i \in a..(b - 1) : t[i + 1] \in IdentifierChars
        /\ a = 0 \/ t[a] \notin IdentifierChars
        /\ b = Len(t) \/ t[b + 1] \notin IdentifierChars}

RECURSIVE Concat(_)
Concat(chars) == IF Len(chars) = 0 THEN "" ELSE Head(chars) \o Concat(Tail(chars))

\* C16: in a text of letters, underscores and white space only, every maximal
\* run of letters and underscores, also one that begins with an underscore, is
\* exactly one token: a keyword token when the run is a keyword spelling, an
\* identifier token carrying the run's text otherwise; and there is no other
\* token before the end of input
C16_IdentifierRuns ==
    (/\ IdentifierRuns(text) # {}
     /\ \A i \in 1..Len(text) : text[i] \in IdentifierChars \cup {" ", "\t", "\n"}) =>
        /\ tokens.k = "Ok"
        /\ Len(tokens.v) = Cardinality(IdentifierRuns(text)) + 1
        /\ \A run \in IdentifierRuns(text) :
              LET word == Concat(SubSeq(text, run[1] + 1, run[2]))
                  k == get_keyword(word)
              IN \E n \in 1..Len(tokens.v) :
                    /\ tokens.v[n].start_pos.index = run[1]
                    /\ tokens.v[n].end_pos.index = run[2]
                    /\ tokens.v[n].token_type =
                          IF Len(k) = 1 THEN TokenType_KEYWRD(k[1]) ELSE TokenType_ID(word)

\* the numeric literals of t with a second dot, as pairs of 0-based indices:
\* the first digit, preceded by white space only, and the second dot of the
\* run of digits and dots that starts there
SecondDots(t) ==
    {<<a, d>> \in (0..Len(t)) \X (0..Len(t)) :
        /\ a < d /\ d < Len(t)
        /\ t[a + 1] \in DIGITS
        /\ \A i \in 1..a : t[i] \in {" ", "\t", "\n"}
        /\ \A i \in a..d : t[i + 1] \in DIGITS \cup {"."}
        /\ t[d + 1] = "."
        /\ Cardinality({i \in a..(d - 1) : t[i + 1] = "."}) = 1}

\* C17: a numeric literal with a second dot is scanned without an error: the
\* text is tokenized, a float token spans the literal up to the second dot,
\* and the next token starts at the second dot
C17_SecondDotStartsToken ==
    \A lit \in SecondDots(text) :
        /\ tokens.k = "Ok"
        /\ \E n \in 1..(Len(tokens.v) - 1) :
              /\ tokens.v[n].token_type.tt = "FLOAT"
              /\ tokens.v[n].start_pos.index = lit[1]
              /\ tokens.v[n].end_pos.index = lit[2]
              /\ tokens.v[n + 1].start_pos.index = lit[2]

----------------------------------------------------------------------------
(* Properties of the scope chain.                                          *)

\* the Contexts met from c along the parent links of heap h, c first; the
\* walk gives up after left steps
RECURSIVE ScopeChain(_, _, _)
ScopeChain(h, c, left) ==
    IF c = NoParent \/ left = 0 THEN <<>>
    ELSE <<c>> \o ScopeChain(h, h[c].parent, left - 1)

\* the names bound in some Context, and one bound in none
LookupNames == UNION {DOMAIN heap[c].symbol_table.table : c \in 1..Len(heap)} \cup {"nosuch"}

\* the Contexts of chain that bind key
Holders(chain, key) ==
    {i \in 1..Len(chain) : key \in DOMAIN heap[chain[i]].symbol_table.table}

ScopeChainAcyclic ==
    \A c \in 1..Len(heap) :
        LET chain == ScopeChain(heap, c, Len(heap) + 1)
        IN /\ Len(chain) <= Len(heap)
           /\ chain[Len(chain)] = RootContext
           /\ heap[RootContext].parent = NoParent
           /\ \A i, j \in 1..Len(chain) : chain[i] = chain[j] => i = j
           /\ \A key \in LookupNames :
                 Context_get(heap, c, key) =
                    IF Holders(chain, key) = {} THEN <<>>
                    ELSE LET i == CHOOSE i \in Holders(chain, key) :
                                      \A j \in Holders(chain, key) : i <= j
                         IN <<heap[chain[i]].symbol_table.table[key]>>

ParentLinksFixed ==
    /\ Len(heap') >= Len(heap)
    /\ \A c \in 1..Len(heap) : heap'[c].parent = heap[c].parent

\* C22: acyclic scope chain.  In every reachable state the walk along the
\* parent links from any Context meets no Context twice and ends at the global
\* Context, which has no parent; Context::get yields the binding of the
\* nearest Context of that walk that holds the name, or nothing when none
\* does; and no step changes the parent link of an existing Context.
C22_AcyclicScopeChain == []ScopeChainAcyclic /\ [][ParentLinksFixed]_vars

\* a name bound to different values in a Context and in an ancestor of it
C22_Witness ==
    \E c \in 1..Len(heap) :
        \E key \in DOMAIN heap[c].symbol_table.table :
            /\ heap[c].parent # NoParent
            /\ Len(Context_get(heap, heap[c].parent, key)) = 1
            /\ Context_get(heap, heap[c].parent, key) # Context_get(heap, c, key)
            /\ Len(ScopeChain(heap, c, Len(heap) + 1)) >= 3

\* C23: a named definition installs the function.  After a top-level
\* fn name(..) {..} has returned its function value, a lookup of name in the
\* global Context yields that function, whatever name is and whether or not
\* it was bound before.
C23_DefinitionInstalls ==
    (program.type = "FUNCDEF" /\ Len(program.name) = 1 /\ result.k = "Ok") =>
        Context_get(heap, RootContext, program.name[1]) = <<result.v>>

----------------------------------------------------------------------------
(* Properties of the order of evaluation.                                  *)

\* C24: lvalue check for += and -=.  A top-level += or -= whose left-hand
\* node is no variable access fails with Runtime "expected LVALUE" without
\* regard to its operands: whatever they would yield, raise or bind, that is
\* the result and no Context has changed.
C24_LvalueCheckFirst ==
    (/\ program.type = "BINOP"
     /\ program.op \in AssignOps
     /\ program.left.type # "ACCESS") =>
        /\ result = Err("Runtime", "expected LVALUE", <<>>)
        /\ heap = before

\* the values the argument expressions of a top-level call ended with
ArgValues(kids, k) == [i \in 1..k |-> kids[1 + i].r.v]

\* C25: call evaluation order.  A top-level call evaluates the callee first;
\* a callee that is no Function fails with Runtime "expected FUNCTION" and no
\* argument is entered, no Context changed.  Otherwise the arguments are
\* entered left to right in the caller's Context up to the first that fails,
\* whose error is the result; after all of them the function is executed on
\* their values: a built-in is applied to them, a user function is called with
\* them and, the count being right, its body entered in a new Context.  In
\* add(y = 1, y + 1) the second argument reads the y the first one bound.
C25_CallEvaluationOrder ==
    program.type = "CALL" =>
        LET kids == Children
            n == Len(kids)
            args == program.args
        IN /\ n >= 1
           /\ kids[1].node = program.func
           /\ kids[1].env = RootContext
           /\ IF kids[1].r.k # "Ok" THEN n = 1 /\ result = kids[1].r
              ELSE IF kids[1].r.v.t # "FUNCTION"
              THEN /\ n = 1
                   /\ result = Err("Runtime", "expected FUNCTION", <<>>)
                   /\ heap = before
              ELSE \E j \in 0..Len(args) :
                      /\ n >= 1 + j
                      /\ \A i \in 1..j : /\ kids[1 + i].node = args[i]
                                         /\ kids[1 + i].env = RootContext
                      /\ \A i \in 1..(j - 1) : kids[1 + i].r.k = "Ok"
                      /\ IF j >= 1 /\ kids[1 + j].r.k # "Ok"
                         THEN /\ n = 1 + j
                              /\ result = kids[1 + j].r
                              /\ Events("call") = {} /\ Events("print") = {}
                         ELSE /\ j = Len(args)
                              /\ IF kids[1].r.v.func_type = "RUSTFUNC"
                                 THEN /\ n = 1 + j
                                      /\ kids[1].r.v.name = "print" =>
                                            \E e \in Events("print") :
                                                log[e].args = ArgValues(kids, j)
                                 ELSE /\ \E e \in Events("call") :
                                            log[e].args = ArgValues(kids, j)
                                      /\ IF j = Len(kids[1].r.v.args_name)
                                         THEN /\ n = 2 + j
                                              /\ kids[n].node = kids[1].r.v.body
                                              /\ kids[n].env > Len(before)
                                              /\ result = kids[n].r
                                         ELSE n = 1 + j /\ result.k = "Err"
           /\ (program = P_call_add_order /\ "add" \in DOMAIN RootTable(before)) =>
                  result = Ok(ChNumber(INT(3)))

\* x(y = 5) with x bound to a number has failed and y is unbound
C25_Witness ==
    /\ program = P_call_x
    /\ "x" \in DOMAIN RootTable(before)
    /\ result = Err("Runtime", "expected FUNCTION", <<>>)
    /\ "y" \notin DOMAIN RootTable(heap)

\* C26: no short-circuit.  A top-level ordinary binary operator enters its
\* left operand first; when that has a value it always enters the right
\* operand next, in the same Context, and only then dispatches on the two
\* values: the right operand's error is the result, and its bindings are made,
\* even for false && e and true || e.
C26_NoShortCircuit ==
    (program.type = "BINOP" /\ program.op \notin AssignOps) =>
        LET kids == Children
            n == Len(kids)
        IN /\ n >= 1
           /\ kids[1].node = program.left
           /\ kids[1].env = RootContext
           /\ IF kids[1].r.k # "Ok" THEN n = 1 /\ result = kids[1].r
              ELSE /\ n >= 2
                   /\ kids[2].node = program.right
                   /\ kids[2].env = RootContext
                   /\ IF kids[2].r.k # "Ok" THEN n = 2 /\ result = kids[2].r
                      ELSE /\ n = 2
                           /\ result = binop_chvalue(kids[1].r.v, program.op, kids[2].r.v)
           /\ program = P_and_false =>
                 /\ result = Ok(ChBool(FALSE))
                 /\ RootTable(heap)["z"] = ChNumber(INT(5))
           /\ program = P_or_true =>
                 /\ result = Ok(ChBool(TRUE))
                 /\ RootTable(heap)["z"] = ChNumber(INT(6))
           /\ program = P_and_err => result.k = "Err" /\ result.e = "Runtime"

\* false && (z = 5) has yielded false and z is 5, having been unbound
C26_Witness ==
    /\ program = P_and_false
    /\ result = Ok(ChBool(FALSE))
    /\ "z" \notin DOMAIN RootTable(before)
    /\ RootTable(heap)["z"] = ChNumber(INT(5))

---------------------------------------------------------------------------
\* Totality of the Lexer

\* the end-of-input tokens of a token sequence
EofTokens(toks) == {i \in 1..Len(toks) : toks[i].token_type.tt = "EOF"}

\* C27: the Lexer is total.  Every text that has been tokenized, the empty
\* text and a text ending in + included, has given either a lexical error or
\* a token sequence whose last token, and no other, is the end-of-input token.
C27_LexerTotal ==
    tokens # NoResult =>
        \/ tokens.k = "Err"
        \/ /\ tokens.k = "Ok"
           /\ EofTokens(tokens.v) = {Len(tokens.v)}

---------------------------------------------------------------------------
\* Properties of the Parser

\* The reference: precedence climbing over the four tiers, a sign before an
\* operand binding tightest.  Its results are [ok, node, i], i the place of
\* the next token.
Tier(t) ==
    CASE Operator(t) \in {"MUL", "DIV"} -> 3
      [] Operator(t) \in {"ADD", "SUB"} -> 2
      [] Operator(t) \in {"EQUAL", "NEQUAL", "LESS", "LESSEQ", "GREATER", "GREATEREQ"} -> 1
      [] Operator(t) \in {"AND", "OR"} -> 0
      [] OTHER -> -1

RefFail == [ok |-> FALSE, node |-> <<>>, i |-> 0]
RefThen(out, F(_, _)) == IF ~out.ok THEN out ELSE F(out.node, out.i)

RECURSIVE RefOperand(_, _)
RefOperand(ts, i) ==
    CASE ts[i].token_type.tt = "INT" ->
             [ok |-> TRUE, node |-> NUM(ts[i].token_type.value), i |-> i + 1]
      [] ts[i].token_type.tt \in {"ADD", "SUB"} ->
             RefThen(RefOperand(ts, i + 1),
                     LAMBDA node, j : [ok |-> TRUE, node |-> UNRYOP(Operator(ts[i]), node), i |-> j])
      [] OTHER -> RefFail

RECURSIVE RefClimb(_, _, _)
RECURSIVE RefChain(_, _, _, _)
\* the operators of tier min or tighter that follow lhs, left to right
RefChain(ts, lhs, i, min) ==
    IF Tier(ts[i]) >= min /\ Tier(ts[i]) >= 0
    THEN RefThen(RefClimb(ts, i + 1, Tier(ts[i]) + 1),
                 LAMBDA rhs, j : RefChain(ts, BINOP(lhs, Operator(ts[i]), rhs), j, min))
    ELSE [ok |-> TRUE, node |-> lhs, i |-> i]

RefClimb(ts, i, min) ==
    RefThen(RefOperand(ts, i), LAMBDA lhs, j : RefChain(ts, lhs, j, min))

\* the whole sequence as one expression
RefParse(ts) ==
    RefThen(RefClimb(ts, 1, 0),
            LAMBDA node, j : IF ts[j].token_type.tt = "EOF"
                             THEN [ok |-> TRUE, node |-> node, i |-> j] ELSE RefFail)

\* C28: precedence and associativity.  For every sequence of at most
\* MaxTokens integer literals and operators of the four tiers, Parser::parse
\* gives the tree of the precedence-climbing reference (* and / above + and -,
\* these above the comparisons, these above && and ||, each tier chaining to
\* the left), and a syntax error where the reference finds no expression.
\* So 1 - 3 - 5 is (1 - 3) - 5, 1 + 3 * 5 is 1 + (3 * 5) and 1 || 3 < 5 + 7 is
\* 1 || (3 < (5 + 7)).
C28_PrecedenceAndAssociativity ==
    parsed # NoResult =>
        /\ IF RefParse(parser_tokens).ok
           THEN parsed = Ok(RefParse(parser_tokens).node)
           ELSE parsed.k = "Err" /\ parsed.e = "InvalidSyntax"
        /\ parser_tokens = TokensOf(<<"INT", "SUB", "INT", "SUB", "INT">>) =>
              parsed = Ok(BINOP(BINOP(Lit(1), "SUB", Lit(3)), "SUB", Lit(5)))
        /\ parser_tokens = TokensOf(<<"INT", "ADD", "INT", "MUL", "INT">>) =>
              parsed = Ok(BINOP(Lit(1), "ADD", BINOP(Lit(3), "MUL", Lit(5))))
        /\ parser_tokens = TokensOf(<<"INT", "OR", "INT", "LESS", "INT", "ADD", "INT">>) =>
              parsed = Ok(BINOP(Lit(1), "OR", BINOP(Lit(3), "LESS", BINOP(Lit(5), "ADD", Lit(7)))))

\* 1 + 3 * 5 has been parsed, the product being the right operand of the sum
C28_Witness ==
    /\ parser_tokens = TokensOf(<<"INT", "ADD", "INT", "MUL", "INT">>)
    /\ parsed = Ok(BINOP(Lit(1), "ADD", BINOP(Lit(3), "MUL", Lit(5))))

---------------------------------------------------------------------------
\* Totality of the evaluator

\* C29: the evaluator is total.  Every application of a binary, an assigning
\* or a unary operator the Parser can produce, unary + and a String or
\* Function right operand included, has given a value or a Runtime or
\* UndefinedOperator error; none has aborted.
C29_EvaluatorTotal ==
    op_name # "" =>
        \/ op_result.k = "Ok"
        \/ op_result.k = "Err" /\ op_result.e \in {"Runtime", "UndefinedOperator"}

---------------------------------------------------------------------------
\* Equality

\* C30: == and != are complementary.  For a Number, Bool or None on the
\* left and a right operand for which both == and != return a value, the
\* value of != is the negation of the value of ==, a Number compared with
\* None and a Bool compared with another variant included.
C30_EqualityComplementary ==
    (/\ op_name \in {"EQUAL", "NEQUAL"}
     /\ op_left.t \in {"NUMBER", "BOOL", "NONE"}
     /\ binop_chvalue(op_left, "EQUAL", op_right).k = "Ok"
     /\ binop_chvalue(op_left, "NEQUAL", op_right).k = "Ok") =>
        /\ op_result = binop_chvalue(op_left, op_name, op_right)
        /\ binop_chvalue(op_left, "NEQUAL", op_right).v.b
              = ~binop_chvalue(op_left, "EQUAL", op_right).v.b

====
